---- MODULE Spec2Model ----
(***************************************************************************)
(* State-access engine of cckit (package state, package state/mapping):   *)
(* key derivation, value encoding, CRUD over the ledger accessor, prefix   *)
(* listing, key history and the key references of unique indexes.          *)
(*                                                                         *)
(* Byte strings and ledger keys are sequences of byte values.  A Go value  *)
(* (interface{}) is a record tagged by its dynamic type in field t.        *)
(* Every engine call runs as one committed transaction of the ledger       *)
(* accessor (the mock stub applies a write when it is issued).             *)
(***************************************************************************)
EXTENDS Integers, Sequences, FiniteSets, TLC

\* Number of mutations the history database records in the runs explored.
MaxTx == 3
MaxCalls == 3

VARIABLES
    ledger,     \* world state: encoded key string -> stored bytes (<<>> = absent)
    history,    \* history database: per encoded key, its mutations, oldest first
    historyDB,  \* whether the peer keeps the history database
    txCount,    \* number of mutations recorded in the history database
    res,        \* outcome of the last engine call
    written,    \* per key (its parts): the value and the call of the last
                \* successful Put/Insert, unless a successful Delete followed
    query,      \* a query builder, the methods called on it and their number
    private,    \* private data: collection -> (encoded key string -> stored bytes)
    keyTransformer, \* the engine's StateKeyTransformer, by name
    pending     \* transactions simulated and not yet validated, and their number

vars ==
    <<ledger, history, historyDB, txCount, res, written, query, private,
      keyTransformer, pending>>

-----------------------------------------------------------------------------
(* Errors: src/state/errors.go, src/errors/errors.go *)

OK == "nil"
ErrKeyAlreadyExists == "state key already exists"
ErrKeyNotFound == "state entry not found"
ErrAllowOnlyOneValue == "allow only one value"
ErrKeyPartsLength == "key parts length must be greater than zero"
ErrUnableToCreateStateKey == "unable to create state key"
UnexpectedError == "unexpected error"
SetGetError == "set/get error"
\* an error value produced below the engine (accessor or codec), passed on as is
StubError == "accessor error"
DecodeError == "decode error"
EncodeError == "encode error"

-----------------------------------------------------------------------------
(* Go values *)

NoValue == [t |-> "nil"]
StringValue(s) == [t |-> "string", s |-> s]
IntValue(n) == [t |-> "int", n |-> n]
KeyValue(k) == [t |-> "Key", k |-> k]
\* type Book struct {Id, Title}; Key() = {BookEntity, Id}
Book(id, title) == [t |-> "Book", Id |-> id, Title |-> title]
\* an entry that is no key source: NormalizeStateKey has no case for it
ChanValue == [t |-> "chan"]

BookEntity == <<66, 79, 79, 75>>

-----------------------------------------------------------------------------
(* Byte strings *)

\* s < t in byte order (strings.Compare(s, t) < 0)
RECURSIVE BytesLess(_, _)
BytesLess(s, t) ==
    IF t = <<>> THEN FALSE
    ELSE IF s = <<>> THEN TRUE
    ELSE IF Head(s) # Head(t) THEN Head(s) < Head(t)
    ELSE BytesLess(Tail(s), Tail(t))

RECURSIVE Concat(_)
Concat(ss) == IF ss = <<>> THEN <<>> ELSE Head(ss) \o Concat(Tail(ss))

\* index of the first occurrence of byte b in s, 0 when there is none
RECURSIVE IndexByte(_, _)
IndexByte(s, b) ==
    IF s = <<>> THEN 0
    ELSE IF Head(s) = b THEN 1
    ELSE LET i == IndexByte(Tail(s), b) IN IF i = 0 THEN 0 ELSE i + 1

-----------------------------------------------------------------------------
(* Value codec: the default transformers ConvertToBytes / ConvertFromBytes  *)
(* of NewState (package convert).                                           *)

\* strconv.Itoa for n >= 0
RECURSIVE Itoa(_)
Itoa(n) == IF n < 10 THEN <<48 + n>> ELSE Itoa(n \div 10) \o <<48 + (n % 10)>>

IsDigits(bb) == bb # <<>> /\ \A i \in 1..Len(bb) : bb[i] \in 48..57

\* the number written by a non-empty digit string
RECURSIVE DigitsValue(_)
DigitsValue(bb) ==
    IF bb = <<>> THEN 0
    ELSE 10 * DigitsValue(SubSeq(bb, 1, Len(bb) - 1)) + (bb[Len(bb)] - 48)

\* json.Marshal of a Book: { Id , Title }
BookJSON(b) == <<123>> \o b.Id \o <<44>> \o b.Title \o <<125>>

\* json.Marshal of a []string: [ part , part ... ]
RECURSIVE JoinParts(_, _)
JoinParts(parts, sep) ==
    IF parts = <<>> THEN <<>>
    ELSE IF Len(parts) = 1 THEN parts[1]
    ELSE parts[1] \o sep \o JoinParts(Tail(parts), sep)

\* one length-delimited protobuf field: tag byte, length, payload
ProtoField(tag, payload) == <<tag, Len(payload)>> \o payload

RECURSIVE ProtoRepeated(_, _)
ProtoRepeated(tag, parts) ==
    IF parts = <<>> THEN <<>>
    ELSE ProtoField(tag, Head(parts)) \o ProtoRepeated(tag, Tail(parts))

\* proto.Marshal of schema.KeyRef / schema.KeyRefId: an empty string field is
\* not emitted, every element of a repeated field is
ProtoString(tag, str) == IF str = <<>> THEN <<>> ELSE ProtoField(tag, str)

KeyRefProto(r) ==
    ProtoString(10, r.Schema) \o ProtoString(18, r.Idx)
        \o ProtoRepeated(26, r.RefKey)
        \o (IF r.t = "KeyRef" THEN ProtoRepeated(34, r.PKey) ELSE <<>>)

\* convert.ToBytes: [err, bytes]
ToBytes(v) ==
    CASE v.t = "string" -> [err |-> OK, bytes |-> v.s]
      [] v.t = "bytes" -> [err |-> OK, bytes |-> v.b]
      [] v.t = "int" -> [err |-> OK, bytes |-> Itoa(v.n)]
      [] v.t = "Book" -> [err |-> OK, bytes |-> BookJSON(v)]
      [] v.t = "Key" -> [err |-> OK, bytes |-> <<91>> \o JoinParts(v.k, <<44>>) \o <<93>>]
      [] v.t = "ProtoStateMapped" -> [err |-> OK, bytes |-> KeyRefProto(v.instance)]
      [] OTHER -> [err |-> EncodeError, bytes |-> <<>>]

ConvertToBytes(v) == ToBytes(v)

\* the fields of a protobuf message: [ok, fields], fields a sequence of
\* <<tag, payload>>; ok is FALSE for a truncated message
RECURSIVE ProtoFields(_)
ProtoFields(bb) ==
    IF bb = <<>> THEN [ok |-> TRUE, fields |-> <<>>]
    ELSE IF Len(bb) < 2 \/ Len(bb) < 2 + bb[2] THEN [ok |-> FALSE, fields |-> <<>>]
    ELSE LET rest == ProtoFields(SubSeq(bb, 3 + bb[2], Len(bb)))
         IN  [ok |-> rest.ok,
              fields |-> <<<<bb[1], SubSeq(bb, 3, 2 + bb[2])>>>> \o rest.fields]

\* payloads of the fields with the given tag, in order
RECURSIVE FieldsOf(_, _)
FieldsOf(fields, tag) ==
    IF fields = <<>> THEN <<>>
    ELSE (IF Head(fields)[1] = tag THEN <<Head(fields)[2]>> ELSE <<>>)
            \o FieldsOf(Tail(fields), tag)

\* last occurrence of a singular field wins; absent reads as ""
LastOf(payloads) == IF payloads = <<>> THEN <<>> ELSE payloads[Len(payloads)]

\* convert.FromBytes(bb, target): target carries the shape; [err, value]
FromBytes(bb, target) ==
    CASE target.t = "string" -> [err |-> OK, value |-> StringValue(bb)]
      [] target.t = "bytes" -> [err |-> OK, value |-> [t |-> "bytes", b |-> bb]]
      [] target.t = "int" ->
            IF IsDigits(bb) THEN [err |-> OK, value |-> IntValue(DigitsValue(bb))]
            ELSE [err |-> DecodeError, value |-> NoValue]
      [] target.t = "Book" ->
            IF Len(bb) >= 3 /\ bb[1] = 123 /\ bb[Len(bb)] = 125
                /\ IndexByte(bb, 44) # 0
            THEN LET i == IndexByte(bb, 44)
                 IN  [err |-> OK,
                      value |-> Book(SubSeq(bb, 2, i - 1), SubSeq(bb, i + 1, Len(bb) - 1))]
            ELSE [err |-> DecodeError, value |-> NoValue]
      [] target.t = "KeyRef" ->
            LET pf == ProtoFields(bb)
                fs == pf.fields
            IN  IF ~pf.ok THEN [err |-> DecodeError, value |-> NoValue]
                ELSE [err |-> OK,
                      value |-> [t |-> "KeyRef",
                                 Schema |-> LastOf(FieldsOf(fs, 10)),
                                 Idx |-> LastOf(FieldsOf(fs, 18)),
                                 RefKey |-> FieldsOf(fs, 26),
                                 PKey |-> FieldsOf(fs, 34)]]
      [] OTHER -> [err |-> DecodeError, value |-> NoValue]

\* ConvertFromBytes(bb, config...): no target means the raw bytes
ConvertFromBytes(bb, config) ==
    IF Len(config) = 0 THEN [err |-> OK, value |-> [t |-> "bytes", b |-> bb]]
    ELSE FromBytes(bb, config[1])

-----------------------------------------------------------------------------
(* Keys *)

\* StateKeyTransformer default
KeyAsIs(key) == [err |-> OK, key |-> key]

\* a transformer that is not idempotent: it puts a part before the key
PrefixPart == <<80>>
KeyPrefixed(key) == [err |-> OK, key |-> <<PrefixPart>> \o key]

\* the engine's StateKeyTransformer field: KeyAsIs unless another is set
StateKeyTransformer(key) ==
    IF keyTransformer = "KeyPrefixed" THEN KeyPrefixed(key) ELSE KeyAsIs(key)

\* shim: compositeKeyNamespace + objectType + U+0000 + (attribute + U+0000)*;
\* a part holding U+0000 is rejected
CompositeKeyNamespace == <<0>>
MinUnicodeRune == <<0>>
\* U+10FFFF in UTF-8
MaxUnicodeRune == <<244, 143, 191, 191>>

ValidCompositeKeyAttribute(part) == \A i \in 1..Len(part) : part[i] # 0

RECURSIVE CompositeAttrs(_)
CompositeAttrs(attrs) ==
    IF attrs = <<>> THEN <<>>
    ELSE Head(attrs) \o MinUnicodeRune \o CompositeAttrs(Tail(attrs))

CreateCompositeKey(objectType, attrs) ==
    IF ValidCompositeKeyAttribute(objectType)
        /\ \A i \in 1..Len(attrs) : ValidCompositeKeyAttribute(attrs[i])
    THEN [err |-> OK,
          str |-> CompositeKeyNamespace \o objectType \o MinUnicodeRune
                    \o CompositeAttrs(attrs)]
    ELSE [err |-> StubError, str |-> <<>>]

\* the parts of a U+0000-terminated list
RECURSIVE SplitParts(_)
SplitParts(s) ==
    IF IndexByte(s, 0) = 0 THEN <<>>
    ELSE LET i == IndexByte(s, 0)
         IN  <<SubSeq(s, 1, i - 1)>> \o SplitParts(SubSeq(s, i + 1, Len(s)))

\* shim SplitCompositeKey: the parts of compositeKey[1:]
SplitCompositeKey(str) == SplitParts(Tail(str))

\* variant: a single part is a composite key as well
KeyToString_Composite(key) ==
    IF Len(key) = 0 THEN [err |-> ErrKeyPartsLength, str |-> <<>>]
    ELSE CreateCompositeKey(key[1], Tail(key))

\* variant: the parts joined by U+0000, without the namespace of composite keys
KeyToString_NoNamespace(key) ==
    CASE Len(key) = 0 -> [err |-> ErrKeyPartsLength, str |-> <<>>]
      [] Len(key) = 1 -> [err |-> OK, str |-> key[1]]
      [] OTHER -> [err |-> CreateCompositeKey(key[1], Tail(key)).err,
                   str |-> Tail(CreateCompositeKey(key[1], Tail(key)).str)]

KeyToString(key) ==
    CASE Len(key) = 0 -> [err |-> ErrKeyPartsLength, str |-> <<>>]
      [] Len(key) = 1 -> [err |-> OK, str |-> key[1]]
      [] OTHER -> CreateCompositeKey(key[1], Tail(key))

-----------------------------------------------------------------------------
(* Key references of unique indexes: src/state/mapping/state_keyref.go *)

\* "_idx"
KeyRefNamespace == <<95, 105, 100, 120>>

\* mapKey(target): the name of the entity type
TypeName(target) ==
    CASE target.t = "Book" -> <<66, 111, 111, 107>>
      [] target.t = "string" -> <<115, 116, 114>>
      [] OTHER -> <<63>>

SchemaNamespace(target) == <<TypeName(target)>>

\* keyFromValue: a string field is one part, a []string field is its parts
KeyFromValue(attr, v) == IF attr \in {"Schema", "Idx"} THEN <<v>> ELSE v

\* attrsPKeyer(attrs)(instance): the named fields of the instance, in order
RECURSIVE attrsPKeyer(_, _)
attrsPKeyer(attrs, instance) ==
    IF attrs = <<>> THEN [err |-> OK, key |-> <<>>]
    ELSE IF Head(attrs) \notin DOMAIN instance
         THEN [err |-> ErrUnableToCreateStateKey, key |-> <<>>]
    ELSE LET rest == attrsPKeyer(Tail(attrs), instance)
         IN  [err |-> rest.err,
              key |-> KeyFromValue(Head(attrs), instance[Head(attrs)]) \o rest.key]

KeyRefIDKeyer(instance) == attrsPKeyer(<<"Schema", "Idx", "RefKey">>, instance)

\* a keyer that also takes the primary key into the reference key
KeyRefFullKeyer(instance) ==
    attrsPKeyer(<<"Schema", "Idx", "RefKey", "PKey">>, instance)

KeyRefMapper_FullKeyer ==
    [schema |-> "KeyRef", namespace |-> <<KeyRefNamespace>>,
     primaryKeyer |-> "KeyRefFullKeyer"]

KeyRefMapper ==
    [schema |-> "KeyRef", namespace |-> <<KeyRefNamespace>>,
     primaryKeyer |-> "KeyRefIDKeyer"]

KeyRefIDMapper ==
    [schema |-> "KeyRefId", namespace |-> <<KeyRefNamespace>>,
     primaryKeyer |-> "KeyRefIDKeyer"]

NewKeyRef(target, idx, refKey, pKey) ==
    [t |-> "KeyRef", Schema |-> JoinParts(SchemaNamespace(target), <<45>>),
     Idx |-> idx, RefKey |-> refKey, PKey |-> pKey]

NewKeyRefID(target, idx, refKey) ==
    [t |-> "KeyRefId", Schema |-> JoinParts(SchemaNamespace(target), <<45>>),
     Idx |-> idx, RefKey |-> refKey]

NewProtoStateMapped(instance, mapper) ==
    [t |-> "ProtoStateMapped", instance |-> instance, mapper |-> mapper]

NewKeyRefMapped(target, idx, refKey, pKey) ==
    NewProtoStateMapped(NewKeyRef(target, idx, refKey, pKey), KeyRefMapper)

NewKeyRefIDMapped(target, idx, refKey) ==
    NewProtoStateMapped(NewKeyRefID(target, idx, refKey), KeyRefIDMapper)

\* ProtoStateMapped.Key(): the mapper's namespace, then its primary key
ProtoStateMappedKey(m) ==
    LET pk == IF m.mapper.primaryKeyer = "KeyRefIDKeyer"
              THEN KeyRefIDKeyer(m.instance)
              ELSE KeyRefFullKeyer(m.instance)
    IN  [err |-> pk.err, key |-> m.mapper.namespace \o pk.key]

-----------------------------------------------------------------------------
(* Key normalisation: src/state/state.go *)

NormalizeStateKey(key) ==
    CASE key.t = "Key" -> [err |-> OK, key |-> key.k]
      [] key.t = "ProtoStateMapped" -> ProtoStateMappedKey(key)
      [] key.t = "Book" -> [err |-> OK, key |-> <<BookEntity, key.Id>>]
      [] key.t = "string" -> [err |-> OK, key |-> <<key.s>>]
      [] OTHER -> [err |-> ErrUnableToCreateStateKey, key |-> <<>>]

\* Impl.Key: [err, Origin, Parts, String]
Key(entry) ==
    LET origin == NormalizeStateKey(entry)
        parts == StateKeyTransformer(origin.key)
        str == KeyToString(parts.key)
        none == [Origin |-> <<>>, Parts |-> <<>>, String |-> <<>>]
    IN  IF origin.err # OK THEN [err |-> origin.err] @@ none
        ELSE IF parts.err # OK THEN [err |-> parts.err] @@ none
        ELSE IF str.err # OK THEN [err |-> str.err] @@ none
        ELSE [err |-> OK, Origin |-> origin.key, Parts |-> parts.key, String |-> str.str]

\* Impl.argKeyValue: [err, key, value]
argKeyValue(arg, values) ==
    LET n == NormalizeStateKey(arg)
    IN  IF n.err # OK THEN [err |-> n.err, key |-> <<>>, value |-> NoValue]
        ELSE CASE Len(values) = 0 -> [err |-> OK, key |-> n.key, value |-> arg]
               [] Len(values) = 1 -> [err |-> OK, key |-> n.key, value |-> values[1]]
               [] OTHER -> [err |-> ErrAllowOnlyOneValue, key |-> <<>>, value |-> NoValue]

-----------------------------------------------------------------------------
(* Ledger accessor (shim.ChaincodeStubInterface as the mock stub provides   *)
(* it).  w = [ledger, history, historyDB, tx]; the ledger maps the keys      *)
(* present to their bytes.  io is the set of accessor calls that fail in    *)
(* this engine call.                                                        *)

GetState(l, key) == IF key \in DOMAIN l THEN l[key] ELSE <<>>

HistoryOf(h, key) == IF key \in DOMAIN h THEN h[key] ELSE <<>>

KeyModification(tx, isDelete, value) ==
    [TxId |-> tx, Timestamp |-> tx, IsDelete |-> isDelete, Value |-> value]

Commit(w, key, isDelete, value) ==
    [ledger |-> [k \in (IF isDelete THEN DOMAIN w.ledger \ {key}
                        ELSE DOMAIN w.ledger \cup {key}) |->
                    IF k = key THEN value ELSE w.ledger[k]],
     history |-> IF ~w.historyDB THEN w.history
                 ELSE [k \in DOMAIN w.history \cup {key} |->
                        IF k = key
                        THEN HistoryOf(w.history, key)
                                \o <<KeyModification(w.tx + 1, isDelete, value)>>
                        ELSE w.history[k]],
     historyDB |-> w.historyDB,
     tx |-> IF w.historyDB THEN w.tx + 1 ELSE w.tx]

DelState(w, key, io) ==
    IF "DelState" \in io THEN [err |-> StubError, w |-> w]
    ELSE [err |-> OK, w |-> Commit(w, key, TRUE, <<>>)]

\* a nil or empty value deletes the key
PutState(w, key, value, io) ==
    IF "PutState" \in io THEN [err |-> StubError, w |-> w]
    ELSE IF Len(value) = 0 THEN DelState(w, key, io)
    ELSE [err |-> OK, w |-> Commit(w, key, FALSE, value)]

\* the keys of S in byte order
RECURSIVE SortKeys(_)
SortKeys(S) ==
    IF S = {} THEN <<>>
    ELSE LET m == CHOOSE k \in S : \A o \in S \ {k} : BytesLess(k, o)
         IN  <<m>> \o SortKeys(S \ {m})

\* range scan [startKey, endKey) over the keys present, in byte order
GetStateByRange(l, startKey, endKey) ==
    LET hit == {k \in DOMAIN l : ~BytesLess(k, startKey) /\ BytesLess(k, endKey)}
        keys == SortKeys(hit)
    IN  [i \in 1..Len(keys) |-> [Key |-> keys[i], Value |-> l[keys[i]]]]

\* an iterator over the rows: what each Next returns, the second Next failing
\* when "Next" is in io
Iterator(rows, io) ==
    [i \in 1..Len(rows) |->
        rows[i] @@ [err |-> IF "Next" \in io /\ i = 2 THEN StubError ELSE OK]]

\* [err, rows]
GetStateByPartialCompositeKey(l, objectType, attrs, io) ==
    LET partial == CreateCompositeKey(objectType, attrs)
    IN  IF "Iter" \in io \/ partial.err # OK THEN [err |-> StubError, rows |-> <<>>]
        ELSE [err |-> OK,
              rows |-> Iterator(GetStateByRange(l, partial.str,
                                                partial.str \o MaxUnicodeRune), io)]

\* a page of a range scan: at most pageSize rows from the bookmark on (from the
\* start of the range when it is empty), and as bookmark the key of the row
\* that follows the page, empty when none does: [err, rows, bookmark]
GetStateByPartialCompositeKeyWithPagination(l, objectType, attrs, pageSize, bookmark, io) ==
    LET partial == CreateCompositeKey(objectType, attrs)
        startKey == IF bookmark # <<>> THEN bookmark ELSE partial.str
        rows == GetStateByRange(l, startKey, partial.str \o MaxUnicodeRune)
        n == IF pageSize < Len(rows) THEN pageSize ELSE Len(rows)
    IN  IF "Iter" \in io \/ partial.err # OK
        THEN [err |-> StubError, rows |-> <<>>, bookmark |-> <<>>]
        ELSE [err |-> OK,
              rows |-> Iterator(SubSeq(rows, 1, n), io),
              bookmark |-> IF n < Len(rows) THEN rows[n + 1].Key ELSE <<>>]

Reverse(s) == [i \in 1..Len(s) |-> s[Len(s) + 1 - i]]

\* the key's modifications, newest first: [err, rows]
GetHistoryForKey(h, key, io) ==
    IF "Iter" \in io \/ "NoHistoryDB" \in io THEN [err |-> StubError, rows |-> <<>>]
    ELSE [err |-> OK, rows |-> Iterator(Reverse(HistoryOf(h, key)), io)]

-----------------------------------------------------------------------------
(* Private data of the ledger accessor.  p maps a collection to the keys    *)
(* present in it and their bytes.                                           *)

GetPrivateData(p, collection, key) == GetState(p[collection], key)

DelPrivateData(p, collection, key, io) ==
    IF "DelPrivateData" \in io THEN [err |-> StubError, p |-> p]
    ELSE [err |-> OK,
          p |-> [p EXCEPT ![collection] =
                    [k \in DOMAIN p[collection] \ {key} |-> p[collection][k]]]]

\* a nil or empty value deletes the key
PutPrivateData(p, collection, key, value, io) ==
    IF "PutPrivateData" \in io THEN [err |-> StubError, p |-> p]
    ELSE IF Len(value) = 0 THEN DelPrivateData(p, collection, key, io)
    ELSE [err |-> OK,
          p |-> [p EXCEPT ![collection] =
                    [k \in DOMAIN p[collection] \cup {key} |->
                        IF k = key THEN value ELSE p[collection][k]]]]

\* [err, rows]
GetPrivateDataByPartialCompositeKey(p, collection, objectType, attrs, io) ==
    LET partial == CreateCompositeKey(objectType, attrs)
    IN  IF "PrivateIter" \in io \/ partial.err # OK
        THEN [err |-> StubError, rows |-> <<>>]
        ELSE [err |-> OK,
              rows |-> Iterator(GetStateByRange(p[collection], partial.str,
                                                partial.str \o MaxUnicodeRune), io)]

-----------------------------------------------------------------------------
(* CRUD engine: src/state/state.go.  The transformers are NewState's        *)
(* defaults.                                                                *)

StateGetTransformer(bb, config) == ConvertFromBytes(bb, config)

StatePutTransformer(v) == ConvertToBytes(v)

\* a Get that does not look at the default of an absent key
Get_NoDefault(l, entry, config, io) ==
    LET key == Key(entry)
        bb == GetState(l, key.String)
    IN  IF key.err # OK THEN [err |-> UnexpectedError, value |-> NoValue]
        ELSE IF "GetState" \in io THEN [err |-> SetGetError, value |-> NoValue]
        ELSE IF Len(bb) = 0 THEN [err |-> ErrKeyNotFound, value |-> NoValue]
        ELSE StateGetTransformer(bb, config)

\* Impl.Get(entry, config...): [err, value]
Get(l, entry, config, io) ==
    LET key == Key(entry)
        bb == GetState(l, key.String)
    IN  IF key.err # OK THEN [err |-> UnexpectedError, value |-> NoValue]
        ELSE IF "GetState" \in io THEN [err |-> SetGetError, value |-> NoValue]
        ELSE IF Len(bb) = 0
             THEN IF Len(config) >= 2 THEN [err |-> OK, value |-> config[2]]
                  ELSE [err |-> ErrKeyNotFound, value |-> NoValue]
        ELSE StateGetTransformer(bb, config)

\* an Exists that reports every resolvable key as present
Exists_Always(l, entry, io) ==
    LET key == Key(entry)
    IN  IF key.err # OK THEN [err |-> UnexpectedError, exists |-> FALSE]
        ELSE IF "GetState" \in io THEN [err |-> SetGetError, exists |-> FALSE]
        ELSE [err |-> OK, exists |-> TRUE]

\* an Exists that reports every key as absent
Exists_Never(l, entry, io) ==
    LET key == Key(entry)
    IN  IF key.err # OK THEN [err |-> UnexpectedError, exists |-> FALSE]
        ELSE IF "GetState" \in io THEN [err |-> SetGetError, exists |-> FALSE]
        ELSE [err |-> OK, exists |-> FALSE]

\* Impl.Exists(entry): [err, exists]
Exists(l, entry, io) ==
    LET key == Key(entry)
        bb == GetState(l, key.String)
    IN  IF key.err # OK THEN [err |-> UnexpectedError, exists |-> FALSE]
        ELSE IF "GetState" \in io THEN [err |-> SetGetError, exists |-> FALSE]
        ELSE [err |-> OK, exists |-> Len(bb) # 0]

\* a Put that keeps the value of a key that is present
Put_IfAbsent(w, entry, values, io) ==
    LET kv == argKeyValue(entry, values)
        bb == StatePutTransformer(kv.value)
        key == Key(KeyValue(kv.key))
    IN  IF kv.err # OK THEN [err |-> UnexpectedError, w |-> w]
        ELSE IF bb.err # OK THEN [err |-> UnexpectedError, w |-> w]
        ELSE IF key.err # OK THEN [err |-> UnexpectedError, w |-> w]
        ELSE IF key.String \in DOMAIN w.ledger THEN [err |-> OK, w |-> w]
        ELSE PutState(w, key.String, bb.bytes, io)

\* Impl.Put(entry, values...): [err, w]
Put(w, entry, values, io) ==
    LET kv == argKeyValue(entry, values)
        bb == StatePutTransformer(kv.value)
        key == Key(KeyValue(kv.key))
    IN  IF kv.err # OK THEN [err |-> UnexpectedError, w |-> w]
        ELSE IF bb.err # OK THEN [err |-> UnexpectedError, w |-> w]
        ELSE IF key.err # OK THEN [err |-> UnexpectedError, w |-> w]
        ELSE PutState(w, key.String, bb.bytes, io)

\* an Insert without the existence check
Insert_NoCheck(w, entry, values, io) ==
    LET kv == argKeyValue(entry, values)
    IN  IF kv.err # OK THEN [err |-> UnexpectedError, w |-> w]
        ELSE Put(w, KeyValue(kv.key), <<kv.value>>, io)

\* variant: the write goes to the transformed key of the existence check, which
\* Put transforms again
Insert_TransformedTwice(w, entry, values, io) ==
    LET ex == Exists(w.ledger, entry, io)
        kv == argKeyValue(entry, values)
    IN  IF ex.err # OK THEN [err |-> SetGetError, w |-> w]
        ELSE IF ex.exists THEN [err |-> ErrKeyAlreadyExists, w |-> w]
        ELSE IF kv.err # OK THEN [err |-> UnexpectedError, w |-> w]
        ELSE Put(w, KeyValue(Key(entry).Parts), <<kv.value>>, io)

\* Impl.Insert(entry, values...): [err, w]
Insert(w, entry, values, io) ==
    LET ex == Exists(w.ledger, entry, io)
        kv == argKeyValue(entry, values)
    IN  IF ex.err # OK THEN [err |-> SetGetError, w |-> w]
        ELSE IF ex.exists THEN [err |-> ErrKeyAlreadyExists, w |-> w]
        ELSE IF kv.err # OK THEN [err |-> UnexpectedError, w |-> w]
        ELSE Put(w, KeyValue(kv.key), <<kv.value>>, io)

\* a Delete that refuses a key that is not present
Delete_IfPresent(w, entry, io) ==
    LET key == Key(entry)
    IN  IF key.err # OK THEN [err |-> UnexpectedError, w |-> w]
        ELSE IF key.String \notin DOMAIN w.ledger THEN [err |-> ErrKeyNotFound, w |-> w]
        ELSE DelState(w, key.String, io)

\* Impl.Delete(entry): [err, w]
Delete(w, entry, io) ==
    LET key == Key(entry)
    IN  IF key.err # OK THEN [err |-> UnexpectedError, w |-> w]
        ELSE DelState(w, key.String, io)

\* The iterators of a call: a result r of a scan carries the number of
\* iterators the call obtained from the accessor (opened) and the number of
\* Close calls it made on them (closed).
\* a return before the accessor handed out an iterator
NoIterator(r) == r @@ [opened |-> 0, closed |-> 0]

\* variant: the iterator is closed at the end of the loop only
DeferClose_AtNormalEnd(r) == r @@ [opened |-> 1, closed |-> IF r.err = OK THEN 1 ELSE 0]

\* "defer func() { _ = iter.Close() }()": every return r that follows the
\* statement closes the iterator
DeferClose(r) == r @@ [opened |-> 1, closed |-> 1]

\* StateList.Fill: every row decoded to the item target, all or nothing
RECURSIVE Fill(_, _)
Fill(rows, config) ==
    IF rows = <<>> THEN [err |-> OK, list |-> <<>>]
    ELSE LET item == StateGetTransformer(Head(rows).Value, config)
             rest == Fill(Tail(rows), config)
         IN  IF Head(rows).err # OK \/ item.err # OK \/ rest.err # OK
             THEN [err |-> UnexpectedError, list |-> <<>>]
             ELSE [err |-> OK, list |-> <<item.value>> \o rest.list]

\* a List that scans by the first part of the namespace alone
List_FirstPartOnly(l, namespace, config, io) ==
    LET n == NormalizeStateKey(namespace)
        key == StateKeyTransformer(n.key)
        iter == GetStateByPartialCompositeKey(l, key.key[1], <<>>, io)
    IN  IF n.err # OK THEN [err |-> UnexpectedError, list |-> <<>>]
        ELSE IF key.err # OK THEN [err |-> UnexpectedError, list |-> <<>>]
        ELSE IF iter.err # OK THEN [err |-> SetGetError, list |-> <<>>]
        ELSE Fill(iter.rows, config)

\* the run-time panic of key[0] on a key without parts: the call does not
\* return
IndexOutOfRange == "panic: runtime error: index out of range"

\* Impl.List(namespace, target...): [err, list, opened, closed]
List(l, namespace, config, io) ==
    LET n == NormalizeStateKey(namespace)
        key == StateKeyTransformer(n.key)
        iter == GetStateByPartialCompositeKey(l, key.key[1], Tail(key.key), io)
    IN  IF n.err # OK THEN NoIterator([err |-> UnexpectedError, list |-> <<>>])
        ELSE IF key.err # OK THEN NoIterator([err |-> UnexpectedError, list |-> <<>>])
        ELSE IF Len(key.key) = 0
        THEN NoIterator([err |-> IndexOutOfRange, list |-> <<>>])
        ELSE IF iter.err # OK THEN NoIterator([err |-> SetGetError, list |-> <<>>])
        ELSE DeferClose(Fill(iter.rows, config))

\* the loop of Impl.GetHistory: every row decoded to the target
RECURSIVE HistoryEntries(_, _)
HistoryEntries(rows, target) ==
    IF rows = <<>> THEN [err |-> OK, list |-> <<>>]
    ELSE LET value == StateGetTransformer(Head(rows).Value, <<target>>)
             rest == HistoryEntries(Tail(rows), target)
         IN  IF Head(rows).err # OK \/ value.err # OK \/ rest.err # OK
             THEN [err |-> UnexpectedError, list |-> <<>>]
             ELSE [err |-> OK,
                   list |-> <<[TxId |-> Head(rows).TxId,
                               Timestamp |-> Head(rows).Timestamp,
                               IsDeleted |-> Head(rows).IsDelete,
                               Value |-> value.value]>> \o rest.list]

\* Impl.GetHistory(entry, target): [err, list, opened, closed]
GetHistory(h, entry, target, io) ==
    LET key == Key(entry)
        iter == GetHistoryForKey(h, key.String, io)
    IN  IF key.err # OK THEN NoIterator([err |-> UnexpectedError, list |-> <<>>])
        ELSE IF iter.err # OK THEN NoIterator([err |-> SetGetError, list |-> <<>>])
        ELSE DeferClose(HistoryEntries(iter.rows, target))

-----------------------------------------------------------------------------
(* Private data of the CRUD engine: src/state/state.go                      *)

\* Impl.GetPrivate(collection, entry, config...): [err, value]
GetPrivate(p, collection, entry, config, io) ==
    LET key == Key(entry)
        bb == GetPrivateData(p, collection, key.String)
    IN  IF key.err # OK THEN [err |-> UnexpectedError, value |-> NoValue]
        ELSE IF "GetPrivateData" \in io THEN [err |-> SetGetError, value |-> NoValue]
        ELSE IF Len(bb) = 0
             THEN IF Len(config) >= 2 THEN [err |-> OK, value |-> config[2]]
                  ELSE [err |-> ErrKeyNotFound, value |-> NoValue]
        ELSE StateGetTransformer(bb, config)

\* Impl.ExistsPrivate(collection, entry): [err, exists]
ExistsPrivate(p, collection, entry, io) ==
    LET key == Key(entry)
        bb == GetPrivateData(p, collection, key.String)
    IN  IF key.err # OK THEN [err |-> UnexpectedError, exists |-> FALSE]
        ELSE IF "GetPrivateData" \in io THEN [err |-> SetGetError, exists |-> FALSE]
        ELSE [err |-> OK, exists |-> Len(bb) # 0]

\* Impl.PutPrivate(collection, entry, values...): [err, p]
PutPrivate(p, collection, entry, values, io) ==
    LET kv == argKeyValue(entry, values)
        bb == StatePutTransformer(kv.value)
        key == Key(KeyValue(kv.key))
    IN  IF kv.err # OK THEN [err |-> UnexpectedError, p |-> p]
        ELSE IF bb.err # OK THEN [err |-> UnexpectedError, p |-> p]
        ELSE IF key.err # OK THEN [err |-> UnexpectedError, p |-> p]
        ELSE PutPrivateData(p, collection, key.String, bb.bytes, io)

\* variant: the value is written before the existence check is looked at
InsertPrivate_WriteFirst(p, collection, entry, values, io) ==
    LET ex == ExistsPrivate(p, collection, entry, io)
        kv == argKeyValue(entry, values)
        put == PutPrivate(p, collection, KeyValue(kv.key), <<kv.value>>, io)
    IN  IF kv.err # OK THEN [err |-> UnexpectedError, p |-> p]
        ELSE IF ex.err # OK THEN [err |-> SetGetError, p |-> put.p]
        ELSE IF ex.exists THEN [err |-> ErrKeyAlreadyExists, p |-> put.p]
        ELSE put

\* Impl.InsertPrivate(collection, entry, values...): [err, p]
InsertPrivate(p, collection, entry, values, io) ==
    LET ex == ExistsPrivate(p, collection, entry, io)
        kv == argKeyValue(entry, values)
    IN  IF ex.err # OK THEN [err |-> SetGetError, p |-> p]
        ELSE IF ex.exists THEN [err |-> ErrKeyAlreadyExists, p |-> p]
        ELSE IF kv.err # OK THEN [err |-> UnexpectedError, p |-> p]
        ELSE PutPrivate(p, collection, KeyValue(kv.key), <<kv.value>>, io)

\* variant: the key is deleted from every collection
DeletePrivate_EveryCollection(p, collection, entry, io) ==
    LET key == Key(entry)
    IN  IF key.err # OK THEN [err |-> UnexpectedError, p |-> p]
        ELSE [err |-> OK,
              p |-> [c \in DOMAIN p |-> [k \in DOMAIN p[c] \ {key.String} |-> p[c][k]]]]

\* Impl.DeletePrivate(collection, entry): [err, p]
DeletePrivate(p, collection, entry, io) ==
    LET key == Key(entry)
    IN  IF key.err # OK THEN [err |-> UnexpectedError, p |-> p]
        ELSE DelPrivateData(p, collection, key.String, io)

\* the error of a private iterator that could not be created:
\* errors.Wrap(err, `create list iterator`)
CreateListIteratorError == "create list iterator: accessor error"

\* the loop of Impl.ListPrivate over the rows of the public key space: the
\* parts of each key, fetched from the collection
RECURSIVE PrivateEntries(_, _, _, _, _)
PrivateEntries(p, collection, rows, config, io) ==
    IF rows = <<>> THEN [err |-> OK, list |-> <<>>]
    ELSE LET keyParts == SplitCompositeKey(Head(rows).Key)
             object == GetPrivate(p, collection, KeyValue(keyParts), config, io)
             rest == PrivateEntries(p, collection, Tail(rows), config, io)
         IN  IF Head(rows).err # OK THEN [err |-> UnexpectedError, list |-> <<>>]
             ELSE IF object.err # OK THEN [err |-> SetGetError, list |-> <<>>]
             ELSE IF rest.err # OK THEN rest
             ELSE [err |-> OK, list |-> <<object.value>> \o rest.list]

\* variant: with the private iterator not wanted, the values of the public
\* key space are listed
ListPrivate_PublicValues(l, p, collection, usePrivateDataIterator, namespace, config, io) ==
    LET n == NormalizeStateKey(namespace)
        key == StateKeyTransformer(n.key)
        priv == GetPrivateDataByPartialCompositeKey(
                    p, collection, key.key[1], Tail(key.key), io)
        iter == GetStateByPartialCompositeKey(l, key.key[1], Tail(key.key), io)
    IN  IF n.err # OK THEN NoIterator([err |-> UnexpectedError, list |-> <<>>])
        ELSE IF key.err # OK THEN NoIterator([err |-> UnexpectedError, list |-> <<>>])
        ELSE IF usePrivateDataIterator
             THEN IF priv.err # OK
                  THEN NoIterator([err |-> CreateListIteratorError, list |-> <<>>])
                  ELSE DeferClose(Fill(priv.rows, config))
        ELSE IF iter.err # OK THEN NoIterator([err |-> SetGetError, list |-> <<>>])
        ELSE DeferClose(Fill(iter.rows, config))

\* Impl.ListPrivate(collection, usePrivateDataIterator, namespace, target...):
\* [err, list, opened, closed]
ListPrivate(l, p, collection, usePrivateDataIterator, namespace, config, io) ==
    LET n == NormalizeStateKey(namespace)
        key == StateKeyTransformer(n.key)
        priv == GetPrivateDataByPartialCompositeKey(
                    p, collection, key.key[1], Tail(key.key), io)
        iter == GetStateByPartialCompositeKey(l, key.key[1], Tail(key.key), io)
    IN  IF n.err # OK THEN NoIterator([err |-> UnexpectedError, list |-> <<>>])
        ELSE IF key.err # OK THEN NoIterator([err |-> UnexpectedError, list |-> <<>>])
        ELSE IF Len(key.key) = 0
        THEN NoIterator([err |-> IndexOutOfRange, list |-> <<>>])
        ELSE IF usePrivateDataIterator
             THEN IF priv.err # OK
                  THEN NoIterator([err |-> CreateListIteratorError, list |-> <<>>])
                  ELSE DeferClose(Fill(priv.rows, config))
        ELSE IF iter.err # OK THEN NoIterator([err |-> SetGetError, list |-> <<>>])
        ELSE DeferClose(PrivateEntries(p, collection, iter.rows, config, io))

-----------------------------------------------------------------------------
(* JSON documents and encoding/json.Marshal, as far as the query builder    *)
(* uses them: strings without characters that need escaping, integers,      *)
(* null, arrays, and maps, whose keys Marshal writes in byte order.         *)

JStr(s) == [j |-> "string", s |-> s]
JNum(n) == [j |-> "number", n |-> n]
JNull == [j |-> "null"]
JList(xs) == [j |-> "array", xs |-> xs]
JMap(m) == [j |-> "object", m |-> m]

EmptyMap == <<>>
\* m[k] = v of a Go map
MapSet(m, k, v) == [x \in DOMAIN m \cup {k} |-> IF x = k THEN v ELSE m[x]]

Quoted(s) == <<34>> \o s \o <<34>>

RECURSIVE Marshal(_)
\* the elements of an array, comma separated
RECURSIVE MarshalList(_)
\* the entries of a map under the given keys, comma separated
RECURSIVE MarshalEntries(_, _)
Marshal(v) ==
    CASE v.j = "string" -> Quoted(v.s)
      [] v.j = "number" -> Itoa(v.n)
      [] v.j = "null" -> <<110, 117, 108, 108>>
      [] v.j = "array" -> <<91>> \o MarshalList(v.xs) \o <<93>>
      [] v.j = "object" -> <<123>> \o MarshalEntries(v.m, SortKeys(DOMAIN v.m)) \o <<125>>
MarshalList(xs) ==
    IF xs = <<>> THEN <<>>
    ELSE Marshal(Head(xs))
            \o (IF Len(xs) > 1 THEN <<44>> \o MarshalList(Tail(xs)) ELSE <<>>)
MarshalEntries(m, keys) ==
    IF keys = <<>> THEN <<>>
    ELSE Quoted(Head(keys)) \o <<58>> \o Marshal(m[Head(keys)])
            \o (IF Len(keys) > 1 THEN <<44>> \o MarshalEntries(m, Tail(keys)) ELSE <<>>)

-----------------------------------------------------------------------------
(* Selector query builder: src/state/query.go *)

NoQuerySelectorError == "No selector provided for rich query"
InvalidSortQueryError == "Invalid syntax for sort query"

\* CombinationType
AND == <<36, 97, 110, 100>>
OR == <<36, 111, 114>>

\* the keys of the compiled query
FieldsKey == <<102, 105, 101, 108, 100, 115>>
SelectorKey == <<115, 101, 108, 101, 99, 116, 111, 114>>
DocTypeKey == <<100, 111, 99, 84, 121, 112, 101>>
SortKey == <<115, 111, 114, 116>>
LimitKey == <<108, 105, 109, 105, 116>>
SkipKey == <<115, 107, 105, 112>>
UseIndexKey == <<117, 115, 101, 95, 105, 110, 100, 101, 120>>

Filter(field, value) == [k |-> "Filter", Field |-> field, Value |-> value]

\* NewQB()
NewQB ==
    [Fields |-> <<>>, DocType |-> <<>>, Filters |-> EmptyMap, Conditions |-> EmptyMap,
     Combinations |-> <<>>, Sort |-> <<>>, HasSelector |-> FALSE, HasLimit |-> FALSE,
     HasSkip |-> FALSE, HasIndex |-> FALSE, Limit |-> 0, Skip |-> 0, Index |-> <<>>]

AddField(builder, fields) == [builder EXCEPT !.Fields = @ \o fields]

AddUseIndex(builder, index) == [builder EXCEPT !.Index = index, !.HasIndex = TRUE]

AddFilter(builder, field, value) ==
    [builder EXCEPT !.Filters = MapSet(@, field, value), !.HasSelector = TRUE]

SetDocType(builder, docType) ==
    [builder EXCEPT !.DocType = docType, !.HasSelector = TRUE]

SetLimit(builder, limit) == [builder EXCEPT !.Limit = limit, !.HasLimit = TRUE]

SetSkip(builder, skip) == [builder EXCEPT !.Skip = skip, !.HasSkip = TRUE]

AddCondition(builder, field, condition) ==
    [builder EXCEPT !.Conditions = MapSet(@, field, condition), !.HasSelector = TRUE]

\* strings.ToLower on ASCII
ToLower(s) == [i \in 1..Len(s) |-> IF s[i] >= 65 /\ s[i] <= 90 THEN s[i] + 32 ELSE s[i]]

\* strings.Split(s, sep) for a one-byte separator
RECURSIVE Split(_, _)
Split(s, sep) ==
    LET i == IndexByte(s, sep)
    IN  IF i = 0 THEN <<s>>
        ELSE <<SubSeq(s, 1, i - 1)>> \o Split(SubSeq(s, i + 1, Len(s)), sep)

Asc == <<97, 115, 99>>
Desc == <<100, 101, 115, 99>>

\* QueryBuilder.AddSort
AddSort(builder, field, sortOrder) ==
    [builder EXCEPT !.Sort = @ \o <<MapSet(EmptyMap, field, ToLower(sortOrder))>>]

\* an AddManySorts that puts each sort before those of the builder
RECURSIVE AddManySorts_Prepend(_, _)
AddManySorts_Prepend(builder, sortRequest) ==
    IF sortRequest = <<>> THEN [err |-> OK, builder |-> builder]
    ELSE LET split == Split(Head(sortRequest), 58)
         IN  IF Len(split) # 2 \/ (split[2] # Asc /\ split[2] # Desc)
             THEN [err |-> InvalidSortQueryError, builder |-> builder]
             ELSE AddManySorts_Prepend(
                    [builder EXCEPT !.Sort = <<MapSet(EmptyMap, split[1], split[2])>> \o @],
                    Tail(sortRequest))

\* QueryBuilder.AddManySorts: [err, builder]; the sorts of the tokens before a
\* rejected one stay in the builder
RECURSIVE AddManySorts(_, _)
AddManySorts(builder, sortRequest) ==
    IF sortRequest = <<>> THEN [err |-> OK, builder |-> builder]
    ELSE LET split == Split(Head(sortRequest), 58)
         IN  IF Len(split) # 2 \/ (split[2] # Asc /\ split[2] # Desc)
             THEN [err |-> InvalidSortQueryError, builder |-> builder]
             ELSE AddManySorts(AddSort(builder, split[1], split[2]), Tail(sortRequest))

IsFilter(f) == f.k = "Filter"
IsNoFilter(f) == f.k # "Filter"

\* the combination both AddCombination methods make of their arguments
NewCombination(combinationType, filters) ==
    [Type |-> combinationType,
     Filters |-> SelectSeq(filters, IsFilter),
     Conditions |-> SelectSeq(filters, IsNoFilter),
     Combinations |-> <<>>]

\* QueryBuilder.AddCombination
AddCombination(builder, combinationType, filters) ==
    [builder EXCEPT !.Combinations = @ \o <<NewCombination(combinationType, filters)>>]

\* Combination.AddCombination
CombinationAddCombination(c, combinationType, filters) ==
    [c EXCEPT !.Combinations = @ \o <<NewCombination(combinationType, filters)>>]

\* the filters of a combination as single-entry maps
FilterMaps(combination) ==
    [i \in 1..Len(combination.Filters) |->
        JMap(MapSet(EmptyMap, combination.Filters[i].Field, combination.Filters[i].Value))]

RECURSIVE addCombinationToParent(_, _)
\* the loop over the child combinations: each appended to the slice so far
RECURSIVE AppendChildren(_, _)
AppendChildren(slice, children) ==
    IF children = <<>> THEN slice
    ELSE AppendChildren(addCombinationToParent(slice, Head(children)), Tail(children))

\* a rendering that leaves the child combinations out
addCombinationToParent_NoChildren(parent, combination) ==
    parent \o <<JMap(IF FilterMaps(combination) = <<>> THEN EmptyMap
                     ELSE MapSet(EmptyMap, combination.Type,
                                 JList(FilterMaps(combination))))>>

\* a slice nothing was appended to is nil, and the map has no entry for the type
addCombinationToParent(parent, combination) ==
    LET slice == AppendChildren(FilterMaps(combination), combination.Combinations)
        combinationRoot == IF slice = <<>> THEN EmptyMap
                           ELSE MapSet(EmptyMap, combination.Type, JList(slice))
    IN  parent \o <<JMap(combinationRoot)>>

\* a rendering with the filters in reverse order
addCombinationToRoot_Reversed(root, combination) ==
    LET slice == AppendChildren(Reverse(FilterMaps(combination)),
                                combination.Combinations)
    IN  MapSet(root, combination.Type, IF slice = <<>> THEN JNull ELSE JList(slice))

\* a nil slice is stored under the type and marshals to null
addCombinationToRoot(root, combination) ==
    LET slice == AppendChildren(FilterMaps(combination), combination.Combinations)
    IN  MapSet(root, combination.Type, IF slice = <<>> THEN JNull ELSE JList(slice))

\* the orders in which a range statement may go over the keys of a map
KeyOrders(m) ==
    {s \in [1..Cardinality(DOMAIN m) -> DOMAIN m] :
        \A i, j \in DOMAIN s : i # j => s[i] # s[j]}

\* the orders in which one Build may go over the filters and the conditions
RangeOrders(builder) ==
    [Filters : KeyOrders(builder.Filters), Conditions : KeyOrders(builder.Conditions)]

\* a loop that is left after the first key
MergeInto_FirstKey(selectorMap, m, keys) ==
    IF keys = <<>> THEN selectorMap
    ELSE MapSet(selectorMap, Head(keys), m[Head(keys)])

\* the loops of Build over the maps, the keys in the order of the range
\* statement, and over the combinations
RECURSIVE MergeInto(_, _, _)
MergeInto(selectorMap, m, keys) ==
    IF keys = <<>> THEN selectorMap
    ELSE MergeInto(MapSet(selectorMap, Head(keys), m[Head(keys)]), m, Tail(keys))

RECURSIVE AddCombinations(_, _)
AddCombinations(selectorMap, combinations) ==
    IF combinations = <<>> THEN selectorMap
    ELSE AddCombinations(addCombinationToRoot(selectorMap, Head(combinations)),
                         Tail(combinations))

SortMaps(sort) ==
    [i \in 1..Len(sort) |-> JMap([k \in DOMAIN sort[i] |-> JStr(sort[i][k])])]

\* a selector that takes the conditions before the filters
Selector_ConditionsFirst(builder, order) ==
    LET withDocType == IF builder.DocType # <<>>
                       THEN MapSet(EmptyMap, DocTypeKey, JStr(builder.DocType))
                       ELSE EmptyMap
        withConditions == MergeInto(withDocType, builder.Conditions, order.Conditions)
        withFilters == MergeInto(withConditions, builder.Filters, order.Filters)
    IN  AddCombinations(withFilters, builder.Combinations)

\* the selector Build compiles
Selector(builder, order) ==
    LET withDocType == IF builder.DocType # <<>>
                       THEN MapSet(EmptyMap, DocTypeKey, JStr(builder.DocType))
                       ELSE EmptyMap
        withFilters == MergeInto(withDocType, builder.Filters, order.Filters)
        withConditions == MergeInto(withFilters, builder.Conditions, order.Conditions)
    IN  AddCombinations(withConditions, builder.Combinations)

\* a query map that has a limit whether or not one was set
QueryMap_AlwaysLimit(builder, order) ==
    MapSet(MapSet(EmptyMap, SelectorKey, JMap(Selector(builder, order))),
           LimitKey, JNum(builder.Limit))

\* the query map Build marshals
QueryMap(builder, order) ==
    LET m0 == IF Len(builder.Fields) > 0
              THEN MapSet(EmptyMap, FieldsKey,
                          JList([i \in 1..Len(builder.Fields) |-> JStr(builder.Fields[i])]))
              ELSE EmptyMap
        m1 == IF builder.HasSelector
              THEN MapSet(m0, SelectorKey, JMap(Selector(builder, order))) ELSE m0
        m2 == IF Len(builder.Sort) > 0
              THEN MapSet(m1, SortKey, JList(SortMaps(builder.Sort))) ELSE m1
        m3 == IF builder.HasLimit THEN MapSet(m2, LimitKey, JNum(builder.Limit)) ELSE m2
        m4 == IF builder.HasSkip THEN MapSet(m3, SkipKey, JNum(builder.Skip)) ELSE m3
    IN  IF builder.HasIndex THEN MapSet(m4, UseIndexKey, JStr(builder.Index)) ELSE m4

\* QueryBuilder.Build: [err, query]
Build(builder, order) ==
    IF ~builder.HasSelector THEN [err |-> NoQuerySelectorError, query |-> <<>>]
    ELSE [err |-> OK, query |-> Marshal(JMap(QueryMap(builder, order)))]

-----------------------------------------------------------------------------
(* Document queries of the ledger accessor, and the paginated listing and   *)
(* rich queries of the engine: src/state/state.go                           *)

\* {"selector":{}}: every row
AnyQuery == <<123, 34, 115, 101, 108, 101, 99, 116, 111, 114, 34, 58, 123, 125, 125>>
\* {"selector":{"Title":title}}: the books of that title
TitleQuery(title) ==
    <<123, 34, 115, 101, 108, 101, 99, 116, 111, 114, 34, 58, 123, 34, 84, 105, 116, 108, 101, 34, 58, 34>>
        \o title \o <<34, 125, 125>>

\* a query that is no JSON object is rejected by the state database
MalformedQuery(selector) == selector = <<>> \/ Head(selector) # 123

QuerySelects(selector, bb) ==
    \/ selector = AnyQuery
    \/ LET b == FromBytes(bb, Book(<<>>, <<>>))
       IN  b.err = OK /\ selector = TitleQuery(b.value.Title)

\* of the rows, those the query selects and whose key lies behind the bookmark
RECURSIVE SelectedRows(_, _, _)
SelectedRows(rows, selector, bookmark) ==
    IF rows = <<>> THEN <<>>
    ELSE (IF QuerySelects(selector, Head(rows).Value)
                /\ (bookmark = <<>> \/ BytesLess(bookmark, Head(rows).Key))
          THEN <<Head(rows)>> ELSE <<>>)
            \o SelectedRows(Tail(rows), selector, bookmark)

\* the rows a query selects behind the bookmark, in key order
QueryRows(l, selector, bookmark) ==
    LET keys == SortKeys(DOMAIN l)
    IN  SelectedRows([i \in 1..Len(keys) |-> [Key |-> keys[i], Value |-> l[keys[i]]]],
                     selector, bookmark)

\* [err, rows]
GetQueryResult(l, selector, io) ==
    IF "Iter" \in io \/ MalformedQuery(selector) THEN [err |-> StubError, rows |-> <<>>]
    ELSE [err |-> OK, rows |-> Iterator(QueryRows(l, selector, <<>>), io)]

\* a page of a query: at most pageSize of the selected rows behind the
\* bookmark (all of them when it is empty), and as bookmark the key of the last
\* row of the page, the bookmark given when the page is empty:
\* [err, rows, bookmark]
GetQueryResultWithPagination(l, selector, pageSize, bookmark, io) ==
    LET rows == QueryRows(l, selector, bookmark)
        n == IF pageSize < Len(rows) THEN pageSize ELSE Len(rows)
    IN  IF "Iter" \in io \/ MalformedQuery(selector)
        THEN [err |-> StubError, rows |-> <<>>, bookmark |-> <<>>]
        ELSE [err |-> OK,
              rows |-> Iterator(SubSeq(rows, 1, n), io),
              bookmark |-> IF n = 0 THEN bookmark ELSE rows[n].Key]

\* variant of the loop below: a failing row ends the loop with the entries
\* decoded before it
RECURSIVE Entries_UpToFailure(_, _)
Entries_UpToFailure(rows, target) ==
    IF rows = <<>> THEN [err |-> OK, entries |-> <<>>]
    ELSE LET entry == StateGetTransformer(Head(rows).Value, <<target>>)
             rest == Entries_UpToFailure(Tail(rows), target)
         IN  IF Head(rows).err # OK \/ entry.err # OK
             THEN [err |-> UnexpectedError, entries |-> <<>>]
             ELSE [err |-> rest.err, entries |-> <<entry.value>> \o rest.entries]

\* the loop of PaginateList, RichQuery and RichListQuery over the rows the
\* iterator delivers: [err, entries]
RECURSIVE Entries(_, _)
Entries(rows, target) ==
    IF rows = <<>> THEN [err |-> OK, entries |-> <<>>]
    ELSE LET entry == StateGetTransformer(Head(rows).Value, <<target>>)
             rest == Entries(Tail(rows), target)
         IN  IF Head(rows).err # OK \/ entry.err # OK \/ rest.err # OK
             THEN [err |-> UnexpectedError, entries |-> <<>>]
             ELSE [err |-> OK, entries |-> <<entry.value>> \o rest.entries]

\* a page: result is nil (isNil) or a list
Page(err, isNil, result, end) ==
    [err |-> err, isNil |-> isNil, result |-> result, end |-> end]

\* variant: a failing row ends the page with the entries decoded before it
PaginateList_Partial(l, objectType, target, limit, start, io) ==
    LET key == Key(objectType)
        iter == GetStateByPartialCompositeKeyWithPagination(
                    l, key.Parts[1], Tail(key.Parts), limit, start, io)
        loop == Entries_UpToFailure(iter.rows, target)
    IN  IF key.err # OK THEN Page(UnexpectedError, TRUE, <<>>, <<>>)
        ELSE IF iter.err # OK THEN Page(SetGetError, TRUE, <<>>, <<>>)
        ELSE Page(loop.err, FALSE, loop.entries, iter.bookmark)

\* variant: the start bookmark is not handed to the accessor
PaginateList_FromStart(l, objectType, target, limit, start, io) ==
    LET key == Key(objectType)
        iter == GetStateByPartialCompositeKeyWithPagination(
                    l, key.Parts[1], Tail(key.Parts), limit, <<>>, io)
        loop == Entries(iter.rows, target)
    IN  IF key.err # OK THEN Page(UnexpectedError, TRUE, <<>>, <<>>)
        ELSE IF iter.err # OK THEN Page(SetGetError, TRUE, <<>>, <<>>)
        ELSE IF loop.err # OK THEN Page(UnexpectedError, TRUE, <<>>, <<>>)
        ELSE Page(OK, FALSE, loop.entries, iter.bookmark)

\* Impl.PaginateList(objectType, target, limit, start):
\* [err, result, end, opened, closed]
PaginateList(l, objectType, target, limit, start, io) ==
    LET key == Key(objectType)
        iter == GetStateByPartialCompositeKeyWithPagination(
                    l, key.Parts[1], Tail(key.Parts), limit, start, io)
        loop == Entries(iter.rows, target)
    IN  IF key.err # OK THEN NoIterator(Page(UnexpectedError, TRUE, <<>>, <<>>))
        ELSE IF iter.err # OK THEN NoIterator(Page(SetGetError, TRUE, <<>>, <<>>))
        ELSE IF loop.err # OK THEN DeferClose(Page(UnexpectedError, TRUE, <<>>, <<>>))
        ELSE DeferClose(Page(OK, FALSE, loop.entries, iter.bookmark))

\* a RichQuery that takes the row behind the page from the iterator as well
RichQuery_ReadsAhead(l, selector, target, pageSize, io) ==
    LET iter == GetQueryResult(l, selector, io)
        i == IF pageSize < 0 THEN 0
             ELSE IF pageSize < Len(iter.rows) THEN pageSize ELSE Len(iter.rows)
        ahead == IF i < Len(iter.rows) THEN i + 1 ELSE i
        loop == Entries(SubSeq(iter.rows, 1, ahead), target)
    IN  IF iter.err # OK
        THEN NoIterator([err |-> SetGetError, isNil |-> TRUE, result |-> <<>>,
                         count |-> 0])
        ELSE IF loop.err # OK
        THEN DeferClose([err |-> UnexpectedError, isNil |-> TRUE, result |-> <<>>,
                         count |-> 0])
        ELSE DeferClose([err |-> OK, isNil |-> FALSE,
                         result |-> SubSeq(loop.entries, 1, i), count |-> i])

\* Impl.RichQuery(query, target, pageSize): [err, result, count]; the loop
\* reads a row only while fewer than pageSize rows were read
RichQuery(l, selector, target, pageSize, io) ==
    LET iter == GetQueryResult(l, selector, io)
        i == IF pageSize < 0 THEN 0
             ELSE IF pageSize < Len(iter.rows) THEN pageSize ELSE Len(iter.rows)
        loop == Entries(SubSeq(iter.rows, 1, i), target)
    IN  IF iter.err # OK
        THEN NoIterator([err |-> SetGetError, isNil |-> TRUE, result |-> <<>>,
                         count |-> 0])
        ELSE IF loop.err # OK
        THEN DeferClose([err |-> UnexpectedError, isNil |-> TRUE, result |-> <<>>,
                         count |-> 0])
        ELSE DeferClose([err |-> OK, isNil |-> FALSE, result |-> loop.entries,
                         count |-> i])

\* Impl.RichListQuery(query, target, pageSize, bookmark):
\* [err, result, end], end the new bookmark
RichListQuery(l, selector, target, pageSize, bookmark, io) ==
    LET iter == GetQueryResultWithPagination(l, selector, pageSize, bookmark, io)
        loop == Entries(iter.rows, target)
    IN  IF iter.err # OK THEN NoIterator(Page(SetGetError, TRUE, <<>>, <<>>))
        ELSE IF loop.err # OK THEN DeferClose(Page(UnexpectedError, TRUE, <<>>, <<>>))
        ELSE DeferClose(Page(OK, FALSE, loop.entries, iter.bookmark))

-----------------------------------------------------------------------------
(* Inputs of the engine calls *)

PartA == <<97>>
PartB == <<98>>
TitleX == <<120>>
TitleY == <<121>>
\* "BOOKS": another namespace, of which BookEntity is a string prefix
BooksEntity == BookEntity \o <<83>>

EmptyString == StringValue(<<>>)
BookTarget == Book(<<>>, <<>>)
StringTarget == StringValue(<<>>)
DefaultBook == Book(<<100>>, <<100>>)

WriteCall(entry, values, io) == [entry |-> entry, values |-> values, io |-> io]
ReadCall(entry, config, io) == [entry |-> entry, config |-> config, io |-> io]

\* Put / Insert calls: an entity alone, a key with a value, malformed calls and
\* calls during which the accessor fails
WriteCalls ==
    {WriteCall(Book(PartA, TitleX), <<>>, {}),
     WriteCall(Book(PartA, TitleY), <<>>, {}),
     WriteCall(Book(PartB, TitleX), <<>>, {}),
     WriteCall(KeyValue(<<BookEntity, PartA>>), <<EmptyString>>, {}),
     WriteCall(StringValue(BookEntity), <<StringValue(TitleX)>>, {}),
     WriteCall(KeyValue(<<BooksEntity, PartA>>), <<StringValue(TitleX)>>, {}),
     WriteCall(ChanValue, <<>>, {}),
     WriteCall(StringValue(BookEntity), <<ChanValue>>, {}),
     WriteCall(Book(PartB, TitleX), <<EmptyString, EmptyString>>, {}),
     WriteCall(Book(PartA, TitleX), <<>>, {"PutState"}),
     WriteCall(Book(PartA, TitleX), <<>>, {"GetState"})}

KeyEntries ==
    {Book(PartA, <<>>), Book(PartB, <<>>), StringValue(BookEntity),
     KeyValue(<<BooksEntity, PartA>>)}

DeleteCalls ==
    {ReadCall(e, <<>>, {}) : e \in KeyEntries}
        \cup {ReadCall(ChanValue, <<>>, {}), ReadCall(Book(PartA, <<>>), <<>>, {"DelState"})}

GetCalls ==
    {ReadCall(Book(PartA, <<>>), config, {}) :
        config \in {<<>>, <<BookTarget>>, <<StringTarget>>, <<BookTarget, DefaultBook>>}}
        \cup {ReadCall(Book(PartB, <<>>), <<BookTarget>>, {}),
              ReadCall(Book(PartB, <<>>), <<BookTarget, DefaultBook>>, {}),
              ReadCall(StringValue(BookEntity), <<StringTarget>>, {}),
              ReadCall(KeyValue(<<BooksEntity, PartA>>), <<StringTarget>>, {}),
              ReadCall(ChanValue, <<>>, {}),
              ReadCall(Book(PartA, <<>>), <<>>, {"GetState"})}

ExistsCalls ==
    {ReadCall(e, <<>>, {}) : e \in KeyEntries}
        \cup {ReadCall(ChanValue, <<>>, {}), ReadCall(Book(PartA, <<>>), <<>>, {"GetState"})}

ListCalls ==
    {ReadCall(n, config, {}) :
        n \in {StringValue(BookEntity), KeyValue(<<BookEntity, PartA>>),
               StringValue(BooksEntity)},
        config \in {<<>>, <<BookTarget>>}}
        \cup {ReadCall(ChanValue, <<>>, {}), ReadCall(StringValue(BookEntity), <<>>, {"Iter"})}

\* the key parts an entry names, <<>> when it names none
PartsOf(entry) == NormalizeStateKey(entry).key

-----------------------------------------------------------------------------
(* State machine *)

\* the collections of private data, none of them holding a key
Collections == {"c", "d"}
NoPrivateData == [c \in Collections |-> <<>>]

\* no transaction simulated
NonePending == [txs |-> {}, n |-> 0]

\* a fresh builder, none of its methods called
NoQuery == [builder |-> NewQB, called |-> {}, n |-> 0]

W == [ledger |-> ledger, history |-> history, historyDB |-> historyDB, tx |-> txCount]

\* what a successful mutation leaves in `written`: the value and the call
Written(value, by) == [value |-> value, by |-> by]
NotWritten == Written(NoValue, "none")
WrittenAt(parts) == IF parts \in DOMAIN written THEN written[parts] ELSE NotWritten
Record(parts, wr) ==
    [k \in (IF wr = NotWritten THEN DOMAIN written \ {parts}
            ELSE DOMAIN written \cup {parts}) |->
        IF k = parts THEN wr ELSE written[k]]

\* the outcome of a call, with what `written` held for its key before it
Outcome(op, entry, args, io, err, out) ==
    [op |-> op, entry |-> entry, key |-> PartsOf(entry), args |-> args, io |-> io,
     err |-> err, out |-> out, prev |-> WrittenAt(PartsOf(entry))]

Init ==
    /\ ledger = <<>>
    /\ history = <<>>
    /\ historyDB = FALSE
    /\ txCount = 0
    /\ written = <<>>
    /\ query = NoQuery
    /\ private = NoPrivateData
    /\ keyTransformer = "KeyAsIs"
    /\ pending = NonePending
    /\ res = Outcome("none", NoValue, <<>>, {}, OK, NoValue)

Apply(r) ==
    /\ ledger' = r.w.ledger
    /\ history' = r.w.history
    /\ txCount' = r.w.tx
    /\ UNCHANGED <<historyDB, query, private, keyTransformer, pending>>

DoPut(calls) ==
    \E c \in calls :
        LET r == Put(W, c.entry, c.values, c.io)
            kv == argKeyValue(c.entry, c.values)
        IN  /\ txCount < MaxTx
            /\ Apply(r)
            /\ written' = IF r.err = OK THEN Record(kv.key, Written(kv.value, "Put"))
                          ELSE written
            /\ res' = Outcome("Put", c.entry, c.values, c.io, r.err, NoValue)

DoInsert(calls) ==
    \E c \in calls :
        LET r == Insert(W, c.entry, c.values, c.io)
            kv == argKeyValue(c.entry, c.values)
        IN  /\ txCount < MaxTx
            /\ Apply(r)
            /\ written' = IF r.err = OK THEN Record(kv.key, Written(kv.value, "Insert"))
                          ELSE written
            /\ res' = Outcome("Insert", c.entry, c.values, c.io, r.err, NoValue)

DoDelete(calls) ==
    \E c \in calls :
        LET r == Delete(W, c.entry, c.io)
        IN  /\ txCount < MaxTx
            /\ Apply(r)
            /\ written' = IF r.err = OK THEN Record(PartsOf(c.entry), NotWritten)
                          ELSE written
            /\ res' = Outcome("Delete", c.entry, <<>>, c.io, r.err, NoValue)

DoGet(calls) ==
    \E c \in calls :
        LET r == Get(ledger, c.entry, c.config, c.io)
        IN  /\ res' = Outcome("Get", c.entry, c.config, c.io, r.err, r.value)
            /\ UNCHANGED <<ledger, history, historyDB, txCount, written, query, private,
                         keyTransformer, pending>>

DoExists(calls) ==
    \E c \in calls :
        LET r == Exists(ledger, c.entry, c.io)
        IN  /\ res' = Outcome("Exists", c.entry, <<>>, c.io, r.err,
                              [t |-> "bool", b |-> r.exists])
            /\ UNCHANGED <<ledger, history, historyDB, txCount, written, query, private,
                         keyTransformer, pending>>

DoList(calls) ==
    \E c \in calls :
        LET r == List(ledger, c.entry, c.config, c.io)
        IN  /\ res' = Outcome("List", c.entry, c.config, c.io, r.err,
                              [t |-> "list", items |-> r.list])
            /\ UNCHANGED <<ledger, history, historyDB, txCount, written, query, private,
                         keyTransformer, pending>>

DoGetHistory(calls) ==
    \E c \in calls :
        LET io == IF historyDB THEN c.io ELSE c.io \cup {"NoHistoryDB"}
            r == GetHistory(history, c.entry, c.config[1], io)
        IN  /\ res' = Outcome("GetHistory", c.entry, c.config, c.io, r.err,
                              [t |-> "history", entries |-> r.list])
            /\ UNCHANGED <<ledger, history, historyDB, txCount, written, query, private,
                         keyTransformer, pending>>

Next ==
    \/ DoPut(WriteCalls)
    \/ DoInsert(WriteCalls)
    \/ DoDelete(DeleteCalls)
    \/ DoGet(GetCalls)
    \/ DoExists(ExistsCalls)
    \/ DoList(ListCalls)

Spec == Init /\ [][Next]_vars

-----------------------------------------------------------------------------
(* Properties of the CRUD engine, checked under Spec *)

\* the target shape a value decodes to
TargetOf(v) == IF v.t = "Book" THEN BookTarget ELSE StringTarget

\* the bytes the value codec stores for a value
Encoded(v) == ToBytes(v).bytes

\* C1 as stated: an Insert on a key whose last successful mutation was an
\* Insert(k, v) fails with AlreadyExists, and Get(k) still returns v.
C1_InsertRejectsDuplicates_AnyValue ==
    (res.op = "Insert" /\ res.io = {} /\ res.prev.by = "Insert")
        => /\ res.err = ErrKeyAlreadyExists
           /\ Get(ledger, res.entry, <<TargetOf(res.prev.value)>>, {})
                = [err |-> OK, value |-> res.prev.value]

\* C1 amended: an Insert on a key whose last successful mutation was an
\* Insert(k, v) of a value v with a non-empty encoding fails with AlreadyExists,
\* and Get(k) still returns v.
C1_InsertRejectsDuplicates ==
    (res.op = "Insert" /\ res.io = {} /\ res.prev.by = "Insert"
        /\ Encoded(res.prev.value) # <<>>)
        => /\ res.err = ErrKeyAlreadyExists
           /\ Get(ledger, res.entry, <<TargetOf(res.prev.value)>>, {})
                = [err |-> OK, value |-> res.prev.value]

\* a second Insert of a different entity under the key of an inserted one failed
C1_Witness ==
    /\ res.op = "Insert" /\ res.io = {} /\ res.args = <<>>
    /\ res.prev.by = "Insert" /\ res.prev.value # res.entry
    /\ res.err = ErrKeyAlreadyExists
    /\ WrittenAt(res.key) = res.prev

\* C2 as stated: Get(k) returns the value of the most recent successful
\* Put/Insert on k that no Delete(k) followed, whatever the value; so it does
\* right after a Put, also one that overwrites.
C2_GetReturnsLastWritten_AnyValue ==
    /\ (res.op = "Get" /\ res.io = {} /\ res.prev.value # NoValue
            /\ res.args = <<TargetOf(res.prev.value)>>)
        => res.err = OK /\ res.out = res.prev.value
    /\ (res.op = "Put" /\ res.err = OK)
        => Get(ledger, res.entry, <<TargetOf(WrittenAt(res.key).value)>>, {})
            = [err |-> OK, value |-> WrittenAt(res.key).value]

\* C2 amended: Get(k) returns the value of the most recent successful Put/Insert
\* on k that no Delete(k) followed when that value's encoding is non-empty, and
\* fails with NotFound when its encoding is empty; so it does right after a Put,
\* also one that overwrites.
C2_GetReturnsLastWritten ==
    /\ (res.op = "Get" /\ res.io = {} /\ res.prev.value # NoValue
            /\ res.args = <<TargetOf(res.prev.value)>>)
        => IF Encoded(res.prev.value) # <<>>
           THEN res.err = OK /\ res.out = res.prev.value
           ELSE res.err = ErrKeyNotFound
    /\ (res.op = "Put" /\ res.err = OK)
        => Get(ledger, res.entry, <<TargetOf(WrittenAt(res.key).value)>>, {})
            = IF Encoded(WrittenAt(res.key).value) # <<>>
              THEN [err |-> OK, value |-> WrittenAt(res.key).value]
              ELSE [err |-> ErrKeyNotFound, value |-> NoValue]

\* a Put replaced a different value written before it, and Get returns the new one
C2_Witness ==
    /\ res.op = "Put" /\ res.err = OK /\ res.args = <<>>
    /\ res.prev.value # NoValue /\ res.prev.value # res.entry
    /\ WrittenAt(res.key).value = res.entry
    /\ Get(ledger, res.entry, <<BookTarget>>, {}) = [err |-> OK, value |-> res.entry]

\* C3: Get on a key that was deleted or never written fails with NotFound
\* without a default and returns the default when one is supplied; so it does
\* right after a Delete.
C3_GetAbsent ==
    /\ (res.op = "Get" /\ res.io = {} /\ res.key # <<>> /\ res.prev.value = NoValue)
        => IF Len(res.args) >= 2
           THEN res.err = OK /\ res.out = res.args[2]
           ELSE res.err = ErrKeyNotFound
    /\ (res.op = "Delete" /\ res.err = OK)
        => /\ Get(ledger, res.entry, <<>>, {}).err = ErrKeyNotFound
           /\ Get(ledger, res.entry, <<BookTarget>>, {}).err = ErrKeyNotFound
           /\ Get(ledger, res.entry, <<BookTarget, DefaultBook>>, {})
                = [err |-> OK, value |-> DefaultBook]

\* a Delete removed a written value, after which Get fails with NotFound
C3_Witness ==
    /\ res.op = "Delete" /\ res.err = OK /\ res.prev.value # NoValue
    /\ Get(ledger, res.entry, <<>>, {}).err = ErrKeyNotFound

\* C4: Delete succeeds whether or not the key is present, and leaves it absent.
C4_DeleteIdempotent ==
    (res.op = "Delete" /\ res.io = {} /\ res.key # <<>>)
        => /\ res.err = OK
           /\ GetState(ledger, KeyToString(res.key).str) = <<>>
           /\ ~Exists(ledger, res.entry, {}).exists

\* a Delete on a key that holds nothing succeeded
C4_Witness ==
    /\ res.op = "Delete" /\ res.io = {} /\ res.err = OK
    /\ res.prev.value = NoValue
    /\ KeyToString(res.key).str \notin DOMAIN ledger

\* C5: a successful Exists is true iff the bytes stored under the key are not
\* empty, which is exactly when Get without a default does not fail with NotFound.
C5_ExistsIffStored ==
    (res.op = "Exists" /\ res.io = {} /\ res.err = OK)
        => /\ res.out.b = (Len(GetState(ledger, KeyToString(res.key).str)) > 0)
           /\ \A config \in {<<>>, <<BookTarget>>, <<StringTarget>>} :
                res.out.b = (Get(ledger, res.entry, config, {}).err # ErrKeyNotFound)

\* Exists answered true on a written key and Get finds it
C5_Witness ==
    /\ res.op = "Exists" /\ res.io = {} /\ res.err = OK /\ res.out.b
    /\ res.prev.value # NoValue
    /\ Get(ledger, res.entry, <<>>, {}).err = OK

\* whether parts p begin the parts k
IsPrefix(p, k) == Len(p) <= Len(k) /\ SubSeq(k, 1, Len(p)) = p

\* the keys written under namespace n: the composite keys that begin with its parts
WrittenUnder(n) ==
    {k \in DOMAIN written : Len(k) >= 2 /\ IsPrefix(n, k)}

\* the keys of S (their parts) in the byte order of their composite keys
RECURSIVE InCompositeKeyOrder(_)
InCompositeKeyOrder(S) ==
    IF S = {} THEN <<>>
    ELSE LET m == CHOOSE k \in S : \A o \in S \ {k} :
                    BytesLess(CreateCompositeKey(k[1], Tail(k)).str,
                              CreateCompositeKey(o[1], Tail(o)).str)
         IN  <<m>> \o InCompositeKeyOrder(S \ {m})

\* what List(n, config...) is to return: the written values, or their bytes
\* when no target is given
ExpectedList(n, config) ==
    LET keys == InCompositeKeyOrder(WrittenUnder(n))
    IN  [i \in 1..Len(keys) |->
            IF config = <<>> THEN [t |-> "bytes", b |-> Encoded(written[keys[i]].value)]
            ELSE written[keys[i]].value]

\* C6: when the values written under namespace N are entities, List(N) returns
\* exactly the entities present under N, each once, in composite-key byte order.
C6_ListNamespace ==
    (res.op = "List" /\ res.io = {} /\ res.key # <<>>
        /\ \A k \in WrittenUnder(res.key) : written[k].value.t = "Book")
        => /\ res.err = OK
           /\ res.out.items = ExpectedList(res.key, res.args)

\* List of the book namespace returned both books while a row of another
\* namespace and a row under a one-part key are present
C6_Witness ==
    /\ res.op = "List" /\ res.io = {} /\ res.err = OK
    /\ res.key = <<BookEntity>> /\ res.args = <<BookTarget>>
    /\ Len(res.out.items) = 2
    /\ res.out.items[1].Id = PartA /\ res.out.items[2].Id = PartB
    /\ <<BooksEntity, PartA>> \in DOMAIN written
    /\ <<BookEntity>> \in DOMAIN written

-----------------------------------------------------------------------------
(* Argument forms of Put and Insert, and the errors of a failing accessor *)

\* the bytes the ledger holds under the key of the last call
StoredAtKey == GetState(ledger, Key(KeyValue(res.key)).String)

\* the last call left its key as the calls before it had written it
KeyUntouched ==
    /\ WrittenAt(res.key) = res.prev
    /\ StoredAtKey = IF res.prev.value = NoValue THEN <<>> ELSE Encoded(res.prev.value)

\* C17: Put and Insert store the entry itself under the entry's key
\* when no extra value is given and the extra value when one is given; with
\* more than one extra value the call fails with ErrAllowOnlyOneValue and
\* writes nothing.
C17_ArgumentForms_TooManyValues ==
    (res.op \in {"Put", "Insert"} /\ res.io = {} /\ res.key # <<>>)
        => /\ (Len(res.args) = 0 /\ res.err = OK)
                => WrittenAt(res.key).value = res.entry /\ StoredAtKey = Encoded(res.entry)
           /\ (Len(res.args) = 1 /\ res.err = OK)
                => WrittenAt(res.key).value = res.args[1]
                    /\ StoredAtKey = Encoded(res.args[1])
           /\ Len(res.args) > 1 => res.err = ErrAllowOnlyOneValue /\ KeyUntouched

\* the accessor calls an engine call makes
AccessorCalls(op) ==
    CASE op = "Put" -> {"PutState"}
      [] op = "Insert" -> {"GetState", "PutState"}
      [] op = "Delete" -> {"DelState"}
      [] op \in {"Get", "Exists"} -> {"GetState"}
      [] op = "List" -> {"Iter"}
      [] OTHER -> {}

\* C18: every failure of the ledger accessor, on a read, a write, a delete or
\* the creation of an iterator, is returned as SetGetError and never as the
\* accessor's own error.
C18_AccessorFailuresAsSetGetError ==
    (res.key # <<>> /\ res.io \cap AccessorCalls(res.op) # {}
        /\ res.err \notin {OK, ErrKeyAlreadyExists})
        => res.err = SetGetError

-----------------------------------------------------------------------------
(* Key history, with the history database kept *)

HistoryWriteCalls ==
    {WriteCall(Book(PartA, TitleX), <<>>, {}),
     WriteCall(Book(PartA, TitleY), <<>>, {}),
     WriteCall(StringValue(BookEntity), <<StringValue(TitleX)>>, {}),
     WriteCall(StringValue(BookEntity), <<EmptyString>>, {})}

HistoryDeleteCalls ==
    {ReadCall(Book(PartA, <<>>), <<>>, {}), ReadCall(StringValue(BookEntity), <<>>, {})}

HistoryCalls ==
    {ReadCall(e, <<target>>, {}) :
        e \in {Book(PartA, <<>>), StringValue(BookEntity)},
        target \in {BookTarget, StringTarget}}
        \cup {ReadCall(ChanValue, <<StringTarget>>, {}),
              ReadCall(Book(PartA, <<>>), <<StringTarget>>, {"Iter"})}

InitHistory ==
    /\ ledger = <<>>
    /\ history = <<>>
    /\ historyDB = TRUE
    /\ txCount = 0
    /\ written = <<>>
    /\ query = NoQuery
    /\ private = NoPrivateData
    /\ keyTransformer = "KeyAsIs"
    /\ pending = NonePending
    /\ res = Outcome("none", NoValue, <<>>, {}, OK, NoValue)

NextHistory ==
    \/ DoPut(HistoryWriteCalls)
    \/ DoDelete(HistoryDeleteCalls)
    \/ DoGetHistory(HistoryCalls)

SpecHistory == InitHistory /\ [][NextHistory]_vars

\* the mutations recorded for the key of the last call, oldest first
Recorded == HistoryOf(history, KeyToString(res.key).str)

\* the values that were put under the key decode into the target of the call
PutsDecode ==
    \A i \in 1..Len(Recorded) :
        ~Recorded[i].IsDelete => StateGetTransformer(Recorded[i].Value, res.args).err = OK

\* C7: after Put(k, v1), Put(k, v2), Delete(k), GetHistory(k) returns three
\* entries, newest first: the deletion, then v2, then v1.
C7_HistoryNewestFirst ==
    (res.op = "GetHistory" /\ res.io = {} /\ Len(Recorded) = 3 /\ PutsDecode
        /\ ~Recorded[1].IsDelete /\ ~Recorded[2].IsDelete /\ Recorded[3].IsDelete)
        => /\ res.err = OK
           /\ Len(res.out.entries) = 3
           /\ res.out.entries[1].IsDeleted
           /\ \A i \in 2..3 :
                /\ ~res.out.entries[i].IsDeleted
                /\ res.out.entries[i].TxId = Recorded[4 - i].TxId
                /\ res.out.entries[i].Value
                    = StateGetTransformer(Recorded[4 - i].Value, res.args).value

\* C8: GetHistory on a key whose history holds a deletion succeeds and returns
\* the deletion's entry.
C8_HistoryToleratesTombstones ==
    (res.op = "GetHistory" /\ res.io = {} /\ PutsDecode
        /\ \E i \in 1..Len(Recorded) : Recorded[i].IsDelete /\ Recorded[i].Value = <<>>)
        => /\ res.err = OK
           /\ \E j \in 1..Len(res.out.entries) : res.out.entries[j].IsDeleted

-----------------------------------------------------------------------------
(* Unique-index key references through the engine *)

IndexName == <<105>>
KeyRefTarget == NewKeyRef(BookTarget, <<>>, <<>>, <<>>)

RefCall(target, refKey, pKey) == [target |-> target, refKey |-> refKey, pKey |-> pKey]

RefCalls ==
    {RefCall(target, refKey, pKey) :
        target \in {BookTarget, StringTarget},
        refKey \in {<<PartA>>, <<PartA, PartB>>},
        pKey \in {<<BookEntity, PartA>>, <<BookEntity, PartB>>}}

\* the row a reference is to live under: the reserved namespace, the schema
\* tag, the index name, the parts of the reference key
RefId(c) == <<KeyRefNamespace, TypeName(c.target), IndexName>> \o c.refKey

RefOutcome(op, c, entry, err, out) ==
    [op |-> op, entry |-> entry, key |-> RefId(c), args |-> c.pKey, io |-> {},
     err |-> err, out |-> out, prev |-> WrittenAt(RefId(c))]

\* mapping Build: Insert of NewKeyRefMapped(target, idx, refKey, pKey)
DoBuild ==
    \E c \in RefCalls :
        LET entry == NewKeyRefMapped(c.target, IndexName, c.refKey, c.pKey)
            r == Insert(W, entry, <<>>, {})
        IN  /\ txCount < MaxTx
            /\ Apply(r)
            /\ written' = IF r.err = OK THEN Record(RefId(c), Written(c.pKey, "Insert"))
                          ELSE written
            /\ res' = RefOutcome("Build", c, entry, r.err, NoValue)

\* mapping lookup: Get of NewKeyRefIDMapped(target, idx, refKey) as a KeyRef
DoLookup ==
    \E c \in {x \in RefCalls : x.pKey = <<BookEntity, PartA>>} :
        LET entry == NewKeyRefIDMapped(c.target, IndexName, c.refKey)
            r == Get(ledger, entry, <<KeyRefTarget>>, {})
        IN  /\ res' = RefOutcome("Lookup", c, entry, r.err, r.value)
            /\ UNCHANGED <<ledger, history, historyDB, txCount, written, query, private,
                         keyTransformer, pending>>

\* removal of a reference: Delete of NewKeyRefIDMapped(target, idx, refKey)
DoUnbuild ==
    \E c \in {x \in RefCalls : x.pKey = <<BookEntity, PartA>>} :
        LET entry == NewKeyRefIDMapped(c.target, IndexName, c.refKey)
            r == Delete(W, entry, {})
        IN  /\ txCount < MaxTx
            /\ Apply(r)
            /\ written' = IF r.err = OK THEN Record(RefId(c), NotWritten) ELSE written
            /\ res' = RefOutcome("Unbuild", c, entry, r.err, NoValue)

NextIndex ==
    \/ DoBuild
    \/ DoLookup
    \/ DoUnbuild
    \/ DoInsert({WriteCall(Book(PartA, TitleX), <<>>, {})})
    \/ DoDelete({ReadCall(Book(PartA, <<>>), <<>>, {})})

SpecIndex == Init /\ [][NextIndex]_vars

\* the primary key stored in the row of the last call's reference
StoredPKey ==
    FromBytes(GetState(ledger, Key(res.entry).String), KeyRefTarget).value.PKey

\* C9: a Build on a reference (schema, index, refKey) that is built fails with
\* AlreadyExists, whatever its primary key, and the stored primary key stays.
C9_IndexUniqueness ==
    (res.op = "Build" /\ res.prev.value # NoValue)
        => /\ res.err = ErrKeyAlreadyExists
           /\ WrittenAt(res.key) = res.prev
           /\ StoredPKey = res.prev.value

\* a Build with another primary key failed on a built reference
C9_Witness ==
    /\ res.op = "Build" /\ res.err = ErrKeyAlreadyExists
    /\ res.prev.value # NoValue /\ res.prev.value # res.args
    /\ StoredPKey = res.prev.value

\* C10: the reference id and the reference address the same row, the reserved
\* namespace followed by schema tag, index name and reference key parts,
\* whatever the primary key; so a lookup returns the primary key of the
\* reference that is built and finds nothing when none is.
C10_LookupAddressesBuiltRow ==
    /\ \A c \in RefCalls :
        LET ref == Key(NewKeyRefMapped(c.target, IndexName, c.refKey, c.pKey))
            id == Key(NewKeyRefIDMapped(c.target, IndexName, c.refKey))
        IN  /\ ref.err = OK /\ id.err = OK
            /\ ref.String = id.String
            /\ id.Origin = RefId(c)
    /\ res.op = "Lookup"
        => IF res.prev.value # NoValue
           THEN res.err = OK /\ res.out.PKey = res.prev.value
           ELSE res.err = ErrKeyNotFound

\* a lookup returned the primary key of a built reference
C10_Witness ==
    /\ res.op = "Lookup" /\ res.err = OK
    /\ res.prev.by = "Insert"
    /\ res.out.PKey = res.prev.value
    /\ Len(res.key) = 5

-----------------------------------------------------------------------------
(* The query builder as a state machine: a method call is a step *)

NameField == <<110, 97, 109, 101>>
AgeField == <<97, 103, 101>>
FieldA == <<97>>
FieldB == <<98>>
DocTypeT == <<84>>
IndexDoc == <<105, 100, 120>>
GreaterThan == <<36, 103, 116>>
\* a CouchDB condition: {"$gt": 1}
GreaterThanOne == JMap(MapSet(EmptyMap, GreaterThan, JNum(1)))
FilterA == Filter(FieldA, JNum(1))
FilterB == Filter(FieldB, JNum(2))
\* an argument of AddCombination that is no Filter
ConditionArg == [k |-> "map", Value |-> GreaterThanOne]

NameAsc == <<110, 97, 109, 101, 58, 97, 115, 99>>
AgeDesc == <<97, 103, 101, 58, 100, 101, 115, 99>>
NameUpward == <<110, 97, 109, 101, 58, 117, 112, 119, 97, 114, 100>>
NameUpperAsc == <<110, 97, 109, 101, 58, 65, 83, 67>>
AgeMixedDesc == <<97, 103, 101, 58, 68, 101, 115, 99>>
NameAlone == <<110, 97, 109, 101>>
NameAscMore == <<110, 97, 109, 101, 58, 97, 115, 99, 58, 120>>

SortRequests ==
    {<<NameAsc, AgeDesc>>, <<AgeDesc, NameAsc>>, <<NameUpward>>, <<NameUpperAsc>>,
     <<AgeMixedDesc>>, <<NameAlone>>, <<NameAscMore>>, <<AgeDesc, NameUpward>>}

\* the arguments of the AddCombination calls on the builder and on a combination
RootCombinations ==
    {<<OR, <<FilterA, FilterB>>>>, <<OR, <<FilterB, FilterA>>>>, <<AND, <<>>>>,
     <<AND, <<FilterA, ConditionArg>>>>, <<AND, <<FilterB>>>>}
NestedCombinations ==
    {<<OR, <<FilterB, FilterA>>>>, <<AND, <<FilterA>>>>, <<AND, <<>>>>}

\* the paths to the combinations a caller holds: indexes from the builder down
RECURSIVE PathsOf(_)
PathsOf(combinations) ==
    {<<i>> : i \in 1..Len(combinations)}
        \cup UNION {{<<i>> \o p : p \in PathsOf(combinations[i].Combinations)} :
                        i \in 1..Len(combinations)}

\* Combination.AddCombination on the combination at the path
RECURSIVE AddAt(_, _, _, _)
AddAt(combinations, path, combinationType, filters) ==
    IF Len(path) = 1
    THEN [combinations EXCEPT
            ![path[1]] = CombinationAddCombination(@, combinationType, filters)]
    ELSE [combinations EXCEPT
            ![path[1]].Combinations = AddAt(@, Tail(path), combinationType, filters)]

QueryOutcome(op, args, err, out) == Outcome(op, NoValue, args, {}, err, out)

\* a method was called on the builder and left it as builder2
Called(op, builder2, args, err, out) ==
    /\ query.n < MaxCalls
    /\ query' = [builder |-> builder2, called |-> query.called \cup {op},
                 n |-> query.n + 1]
    /\ res' = QueryOutcome(op, args, err, out)
    /\ UNCHANGED <<ledger, history, historyDB, txCount, written, private,
                 keyTransformer, pending>>

DoAddField ==
    Called("AddField", AddField(query.builder, <<NameField>>), <<>>, OK, NoValue)

DoAddUseIndex ==
    Called("AddUseIndex", AddUseIndex(query.builder, IndexDoc), <<>>, OK, NoValue)

DoAddFilter ==
    \E f \in {Filter(NameField, JStr(TitleX)), FilterA} :
        Called("AddFilter", AddFilter(query.builder, f.Field, f.Value), <<>>, OK, NoValue)

DoSetDocType ==
    \E docType \in {DocTypeT, <<>>} :
        Called("SetDocType", SetDocType(query.builder, docType), <<>>, OK, NoValue)

DoSetLimit == Called("SetLimit", SetLimit(query.builder, 10), <<>>, OK, NoValue)

DoSetSkip == Called("SetSkip", SetSkip(query.builder, 0), <<>>, OK, NoValue)

DoAddCondition ==
    \E field \in {AgeField, NameField} :
        Called("AddCondition", AddCondition(query.builder, field, GreaterThanOne),
               <<>>, OK, NoValue)

DoAddSort ==
    \E sortOrder \in {Asc, ToLower(Desc)} :
        Called("AddSort", AddSort(query.builder, AgeField, sortOrder), <<>>, OK, NoValue)

DoAddManySorts ==
    \E sortRequest \in SortRequests :
        LET r == AddManySorts(query.builder, sortRequest)
        IN  Called("AddManySorts", r.builder, sortRequest, r.err,
                   [t |-> "sorts", before |-> query.builder.Sort])

DoAddCombination ==
    \E c \in RootCombinations :
        Called("AddCombination", AddCombination(query.builder, c[1], c[2]),
               <<>>, OK, NoValue)

DoNestCombination ==
    \E path \in PathsOf(query.builder.Combinations), c \in NestedCombinations :
        Called("Combination.AddCombination",
               [query.builder EXCEPT !.Combinations = AddAt(@, path, c[1], c[2])],
               <<>>, OK, NoValue)

DoBuildQuery ==
    \E order \in RangeOrders(query.builder) :
        LET r == Build(query.builder, order)
        IN  /\ res' = QueryOutcome("Build", <<>>, r.err, [t |-> "query", q |-> r.query])
            /\ UNCHANGED <<ledger, history, historyDB, txCount, written, query, private,
                         keyTransformer, pending>>

NextQuery ==
    \/ DoAddField
    \/ DoAddUseIndex
    \/ DoAddFilter
    \/ DoSetDocType
    \/ DoSetLimit
    \/ DoSetSkip
    \/ DoAddCondition
    \/ DoAddSort
    \/ DoAddManySorts
    \/ DoAddCombination
    \/ DoNestCombination
    \/ DoBuildQuery

SpecQuery == Init /\ [][NextQuery]_vars

-----------------------------------------------------------------------------
(* Properties of the query builder, checked under SpecQuery *)

\* the methods that contribute to the selector
SelectorCalls == {"AddFilter", "AddCondition", "SetDocType", "AddCombination"}

\* C11: Build fails with NoSelector on a builder that received none of
\* AddFilter, AddCondition, SetDocType, AddCombination, and succeeds after any
\* one of them.
C11_BuildNeedsSelectorCall ==
    res.op = "Build"
        => IF query.called \cap SelectorCalls = {}
           THEN res.err = NoQuerySelectorError
           ELSE res.err = OK

\* {"selector":{"name":"x"}}
SelectorNameX ==
    <<123, 34, 115, 101, 108, 101, 99, 116, 111, 114, 34, 58, 123, 34, 110,
      97, 109, 101, 34, 58, 34, 120, 34, 125, 125>>

\* the query of a builder that received flat filters and no other selector call:
\* the filters as the selector, and the key of each setter that was called
FlatQuery ==
    LET b == query.builder
        c == query.called
        m0 == MapSet(EmptyMap, SelectorKey, JMap(b.Filters))
        m1 == IF "AddField" \in c
              THEN MapSet(m0, FieldsKey, JList([i \in 1..Len(b.Fields) |-> JStr(b.Fields[i])]))
              ELSE m0
        m2 == IF c \cap {"AddSort", "AddManySorts"} # {} /\ b.Sort # <<>>
              THEN MapSet(m1, SortKey, JList(SortMaps(b.Sort))) ELSE m1
        m3 == IF "SetLimit" \in c THEN MapSet(m2, LimitKey, JNum(b.Limit)) ELSE m2
        m4 == IF "SetSkip" \in c THEN MapSet(m3, SkipKey, JNum(b.Skip)) ELSE m3
    IN  IF "AddUseIndex" \in c THEN MapSet(m4, UseIndexKey, JStr(b.Index)) ELSE m4

\* C12: a builder that received AddFilter and no other selector call compiles
\* to its filters as field -> value siblings inside selector, with the fields,
\* sort, limit, skip and use_index keys of the setters that were called and no
\* others; after AddFilter("name", "x") alone to {"selector":{"name":"x"}}.
C12_FlatFilters ==
    (res.op = "Build" /\ "AddFilter" \in query.called
        /\ query.called \cap (SelectorCalls \ {"AddFilter"}) = {})
        => /\ res.err = OK
           /\ res.out.q = Marshal(JMap(FlatQuery))
           /\ (query.called = {"AddFilter"}
                /\ query.builder.Filters = MapSet(EmptyMap, NameField, JStr(TitleX)))
                => res.out.q = SelectorNameX

\* AddFilter("name", "x") alone was compiled
C12_Witness ==
    /\ res.op = "Build" /\ res.err = OK
    /\ query.called = {"AddFilter"}
    /\ query.builder.Filters = MapSet(EmptyMap, NameField, JStr(TitleX))
    /\ res.out.q = SelectorNameX

\* the document {"selector":{"docType":"T","$or":[{"a":1},{"b":2}]}}
DocTypeOrDocument ==
    JMap(MapSet(EmptyMap, SelectorKey,
        JMap(MapSet(MapSet(EmptyMap, DocTypeKey, JStr(DocTypeT)), OR,
            JList(<<JMap(MapSet(EmptyMap, FieldA, JNum(1))),
                    JMap(MapSet(EmptyMap, FieldB, JNum(2)))>>)))))

\* as Marshal writes it, keys in byte order:
\* {"selector":{"$or":[{"a":1},{"b":2}],"docType":"T"}}
DocTypeOrBytes ==
    <<123, 34, 115, 101, 108, 101, 99, 116, 111, 114, 34, 58, 123, 34, 36,
      111, 114, 34, 58, 91, 123, 34, 97, 34, 58, 49, 125, 44, 123, 34, 98,
      34, 58, 50, 125, 93, 44, 34, 100, 111, 99, 84, 121, 112, 101, 34, 58,
      34, 84, 34, 125, 125>>

\* the builder received SetDocType("T") and AddCombination(OR, Filter{a,1},
\* Filter{b,2}) and nothing else
DocTypeOrBuilder ==
    /\ query.called = {"SetDocType", "AddCombination"}
    /\ query.n = 2
    /\ query.builder.DocType = DocTypeT
    /\ query.builder.Combinations = <<NewCombination(OR, <<FilterA, FilterB>>)>>

\* C13: a builder with SetDocType("T") and AddCombination(OR, Filter{"a",1},
\* Filter{"b",2}) compiles to the document
\* {"selector":{"docType":"T","$or":[{"a":1},{"b":2}]}}, the filters in the
\* order they were passed.
C13_DocTypeAndCombination ==
    (res.op = "Build" /\ DocTypeOrBuilder)
        => /\ res.err = OK
           /\ res.out.q = Marshal(DocTypeOrDocument)
           /\ res.out.q = DocTypeOrBytes

\* that builder was compiled
C13_Witness ==
    /\ res.op = "Build" /\ res.err = OK /\ DocTypeOrBuilder
    /\ res.out.q = DocTypeOrBytes

\* the rule of combination rendering: the filters as single-entry maps in
\* insertion order, then the child combinations by the same rule
RECURSIVE RuleItems(_)
RuleItems(c) ==
    [i \in 1..Len(c.Filters) |->
        JMap(MapSet(EmptyMap, c.Filters[i].Field, c.Filters[i].Value))]
    \o [i \in 1..Len(c.Combinations) |->
        JMap(MapSet(EmptyMap, c.Combinations[i].Type,
                    JList(RuleItems(c.Combinations[i]))))]

\* the rule, with what a combination without filters and children renders to:
\* null under its type in the selector, {} inside a parent
RECURSIVE RuleItemsOrNone(_)
RuleItemsOrNone(c) ==
    [i \in 1..Len(c.Filters) |->
        JMap(MapSet(EmptyMap, c.Filters[i].Field, c.Filters[i].Value))]
    \o [i \in 1..Len(c.Combinations) |->
        IF RuleItemsOrNone(c.Combinations[i]) = <<>> THEN JMap(EmptyMap)
        ELSE JMap(MapSet(EmptyMap, c.Combinations[i].Type,
                         JList(RuleItemsOrNone(c.Combinations[i]))))]

\* the combinations of the builder at every depth
RECURSIVE Nodes(_)
Nodes(combinations) ==
    {combinations[i] : i \in 1..Len(combinations)}
        \cup UNION {Nodes(combinations[i].Combinations) : i \in 1..Len(combinations)}

ValidSortToken(token) ==
    /\ Cardinality({i \in 1..Len(token) : token[i] = 58}) = 1
    /\ \E i \in 1..Len(token) :
        token[i] = 58 /\ SubSeq(token, i + 1, Len(token)) \in {Asc, Desc}

\* the same, the direction in any letter case
ValidSortTokenAnyCase(token) ==
    /\ Cardinality({i \in 1..Len(token) : token[i] = 58}) = 1
    /\ \E i \in 1..Len(token) :
        token[i] = 58 /\ ToLower(SubSeq(token, i + 1, Len(token))) \in {Asc, Desc}

\* the sort entry of a valid token: field -> lower-cased direction
SortEntry(token) ==
    LET i == CHOOSE j \in 1..Len(token) : token[j] = 58
    IN  MapSet(EmptyMap, SubSeq(token, 1, i - 1), ToLower(SubSeq(token, i + 1, Len(token))))

\* C15: AddManySorts of tokens that all are field:asc or field:desc succeeds
\* and appends their sort entries in the given order; with a token of another
\* shape or direction it fails with InvalidSortSyntax.
C15_SortParsing ==
    res.op = "AddManySorts"
        => IF \A i \in 1..Len(res.args) : ValidSortToken(res.args[i])
           THEN /\ res.err = OK
                /\ query.builder.Sort
                    = res.out.before \o [i \in 1..Len(res.args) |-> SortEntry(res.args[i])]
           ELSE res.err = InvalidSortQueryError

\* ["name:asc", "age:desc"] was added after another sort, in that order
C15_Witness ==
    /\ res.op = "AddManySorts" /\ res.err = OK
    /\ res.args = <<NameAsc, AgeDesc>>
    /\ Len(res.out.before) = 1
    /\ Len(query.builder.Sort) = 3
    /\ query.builder.Sort[2] = MapSet(EmptyMap, NameField, Asc)
    /\ query.builder.Sort[3] = MapSet(EmptyMap, AgeField, Desc)

\* C16: AddManySorts accepts tokens whose direction is asc or desc in any
\* letter case and records the direction lower-cased.
C16_SortDirectionAnyCase ==
    (res.op = "AddManySorts"
        /\ \A i \in 1..Len(res.args) : ValidSortTokenAnyCase(res.args[i]))
        => /\ res.err = OK
           /\ query.builder.Sort
                = res.out.before \o [i \in 1..Len(res.args) |-> SortEntry(res.args[i])]

-----------------------------------------------------------------------------
(* Scans, pages and rich queries over a ledger of books, with the history   *)
(* database kept                                                            *)

PartC == <<99>>

\* books a, b and c, and under the key of book b a value that is no book
PagingWriteCalls ==
    {WriteCall(Book(PartA, TitleX), <<>>, {}),
     WriteCall(Book(PartB, TitleY), <<>>, {}),
     WriteCall(Book(PartC, TitleX), <<>>, {}),
     WriteCall(KeyValue(<<BookEntity, PartB>>), <<StringValue(TitleX)>>, {})}

PageSizes == {1, 2}

\* the start of the scan and the keys of two books
Bookmarks == {<<>>} \cup {Key(Book(id, <<>>)).String : id \in {PartA, PartB}}

PageCall(namespace, target, limit, start, io) ==
    [namespace |-> namespace, target |-> target, limit |-> limit, start |-> start,
     io |-> io]

PaginateCalls ==
    {PageCall(StringValue(BookEntity), BookTarget, limit, start, {}) :
        limit \in PageSizes, start \in Bookmarks}
        \cup {PageCall(StringValue(BookEntity), BookTarget, 2, <<>>, io) :
                io \in {{"Iter"}, {"Next"}}}
        \cup {PageCall(StringValue(BookEntity), StringTarget, 2, <<>>, {}),
              PageCall(ChanValue, BookTarget, 2, <<>>, {})}

QueryCall(selector, target, pageSize, bookmark, io) ==
    [selector |-> selector, target |-> target, pageSize |-> pageSize,
     bookmark |-> bookmark, io |-> io]

Selectors == {AnyQuery, TitleQuery(TitleX)}

RichQueryCalls ==
    {QueryCall(selector, BookTarget, pageSize, <<>>, {}) :
        selector \in Selectors, pageSize \in {0, 2}}
        \cup {QueryCall(AnyQuery, BookTarget, 3, <<>>, io) : io \in {{"Iter"}, {"Next"}}}
        \cup {QueryCall(TitleX, BookTarget, 3, <<>>, {})}

RichListCalls ==
    {QueryCall(AnyQuery, BookTarget, pageSize, bookmark, {}) :
        pageSize \in PageSizes, bookmark \in Bookmarks}
        \cup {QueryCall(TitleQuery(TitleX), BookTarget, 1, <<>>, {})}
        \cup {QueryCall(AnyQuery, BookTarget, 2, <<>>, io) : io \in {{"Iter"}, {"Next"}}}
        \cup {QueryCall(TitleX, BookTarget, 2, <<>>, {})}

PagingListCalls ==
    {ReadCall(StringValue(BookEntity), <<BookTarget>>, io) : io \in {{}, {"Iter"}, {"Next"}}}

PagingHistoryCalls ==
    {ReadCall(Book(PartB, <<>>), <<BookTarget>>, io) : io \in {{}, {"Iter"}, {"Next"}}}

DoPaginateList(calls) ==
    \E c \in calls :
        LET r == PaginateList(ledger, c.namespace, c.target, c.limit, c.start, c.io)
        IN  /\ res' = Outcome("PaginateList", c.namespace,
                              [target |-> c.target, limit |-> c.limit, start |-> c.start],
                              c.io, r.err, r)
            /\ UNCHANGED <<ledger, history, historyDB, txCount, written, query, private,
                         keyTransformer, pending>>

DoRichQuery(calls) ==
    \E c \in calls :
        LET r == RichQuery(ledger, c.selector, c.target, c.pageSize, c.io)
        IN  /\ res' = Outcome("RichQuery", NoValue,
                              [selector |-> c.selector, target |-> c.target,
                               pageSize |-> c.pageSize],
                              c.io, r.err, r)
            /\ UNCHANGED <<ledger, history, historyDB, txCount, written, query, private,
                         keyTransformer, pending>>

DoRichListQuery(calls) ==
    \E c \in calls :
        LET r == RichListQuery(ledger, c.selector, c.target, c.pageSize, c.bookmark, c.io)
        IN  /\ res' = Outcome("RichListQuery", NoValue,
                              [selector |-> c.selector, target |-> c.target,
                               pageSize |-> c.pageSize, bookmark |-> c.bookmark],
                              c.io, r.err, r)
            /\ UNCHANGED <<ledger, history, historyDB, txCount, written, query, private,
                         keyTransformer, pending>>

NextPaging ==
    \/ DoPut(PagingWriteCalls)
    \/ DoList(PagingListCalls)
    \/ DoGetHistory(PagingHistoryCalls)
    \/ DoPaginateList(PaginateCalls)
    \/ DoRichQuery(RichQueryCalls)
    \/ DoRichListQuery(RichListCalls)

SpecPaging == InitHistory /\ [][NextPaging]_vars

-----------------------------------------------------------------------------
(* Properties of scans, pages and rich queries, checked under SpecPaging *)

ScanOps == {"List", "GetHistory", "PaginateList", "RichQuery", "RichListQuery"}

\* the rows the accessor's iterator held for the last call
RowsOf ==
    CASE res.op = "List" /\ res.key # <<>> ->
            GetStateByPartialCompositeKey(ledger, res.key[1], Tail(res.key), res.io).rows
      [] res.op = "GetHistory" /\ res.key # <<>> ->
            GetHistoryForKey(history, Key(res.entry).String, res.io).rows
      [] res.op = "PaginateList" /\ res.key # <<>> ->
            GetStateByPartialCompositeKeyWithPagination(
                ledger, res.key[1], Tail(res.key), res.args.limit, res.args.start,
                res.io).rows
      [] res.op = "RichQuery" ->
            LET rows == GetQueryResult(ledger, res.args.selector, res.io).rows
            IN  IF res.args.pageSize < Len(rows) THEN SubSeq(rows, 1, res.args.pageSize)
                ELSE rows
      [] res.op = "RichListQuery" ->
            GetQueryResultWithPagination(ledger, res.args.selector, res.args.pageSize,
                                         res.args.bookmark, res.io).rows
      [] OTHER -> <<>>

\* the target the last call decodes its rows to
TargetOfCall == IF res.op \in {"List", "GetHistory"} THEN res.args ELSE <<res.args.target>>

\* advancing to the row or decoding it fails
RowFails(row) == row.err # OK \/ StateGetTransformer(row.Value, TargetOfCall).err # OK

\* what the last call returned as its entries
ReturnedEntries ==
    CASE res.op = "List" -> res.out.items
      [] res.op = "GetHistory" -> res.out.entries
      [] OTHER -> res.out.result

\* C19: List, PaginateList, GetHistory, RichQuery and RichListQuery never
\* return a part of their rows: when advancing the iterator or decoding a row
\* fails, the call returns UnexpectedError; a call that fails returns a nil
\* result, an empty bookmark and a count of zero; a call that succeeds returns
\* an entry for every row.
C19_NoPartialResults ==
    res.op \in ScanOps
        => /\ (\E i \in DOMAIN RowsOf : RowFails(RowsOf[i])) => res.err = UnexpectedError
           /\ res.err # OK
                => /\ ReturnedEntries = <<>>
                   /\ res.op \in {"PaginateList", "RichListQuery"}
                        => res.out.isNil /\ res.out.end = <<>>
                   /\ res.op = "RichQuery" => res.out.isNil /\ res.out.count = 0
           /\ res.err = OK => Len(ReturnedEntries) = Len(RowsOf)

\* a page of two rows whose first row is a book and whose second is not
C19_Witness ==
    /\ res.op = "PaginateList" /\ res.io = {} /\ res.args.limit = 2
    /\ Len(RowsOf) = 2 /\ ~RowFails(RowsOf[1]) /\ RowFails(RowsOf[2])
    /\ res.err = UnexpectedError /\ res.out.isNil /\ res.out.end = <<>>

\* more pages than a ledger of MaxTx writes can hold rows
MaxPages == MaxTx + 1

\* what a traversal returns for the pages it did not get to
Unvisited == [t |-> "unvisited"]

\* the entries of the pages behind a page that returned the bookmark: each
\* call is given the bookmark the call before it returned, until the bookmark
\* returned is empty
RECURSIVE PagesFrom(_, _, _, _, _)
PagesFrom(namespace, target, limit, bookmark, pages) ==
    IF bookmark = <<>> THEN <<>>
    ELSE IF pages = 0 THEN <<Unvisited>>
    ELSE LET p == PaginateList(ledger, namespace, target, limit, bookmark, {})
         IN  p.result \o PagesFrom(namespace, target, limit, p.end, pages - 1)

\* the same for the pages of a query, until a page is empty
RECURSIVE QueryPagesFrom(_, _, _, _, _)
QueryPagesFrom(selector, target, pageSize, bookmark, pages) ==
    IF pages = 0 THEN <<Unvisited>>
    ELSE LET p == RichListQuery(ledger, selector, target, pageSize, bookmark, {})
         IN  IF p.result = <<>> THEN <<>>
             ELSE p.result \o QueryPagesFrom(selector, target, pageSize, p.end, pages - 1)

\* C20: PaginateList and RichListQuery hand the caller's bookmark to the
\* accessor and the accessor's bookmark to the caller, both unchanged; giving
\* each call the bookmark the call before it returned visits every entry under
\* the namespace (every entry the query selects) exactly once across the pages.
C20_BookmarksForwarded ==
    /\ (res.op = "PaginateList" /\ res.key # <<>> /\ res.err = OK)
        => res.out.end = GetStateByPartialCompositeKeyWithPagination(
                            ledger, res.key[1], Tail(res.key), res.args.limit,
                            res.args.start, res.io).bookmark
    /\ (res.op = "RichListQuery" /\ res.err = OK)
        => res.out.end = GetQueryResultWithPagination(
                            ledger, res.args.selector, res.args.pageSize,
                            res.args.bookmark, res.io).bookmark
    /\ (res.op = "PaginateList" /\ res.io = {} /\ res.args.start = <<>>
            /\ List(ledger, res.entry, <<res.args.target>>, {}).err = OK)
        => /\ res.err = OK
           /\ res.out.result
                \o PagesFrom(res.entry, res.args.target, res.args.limit, res.out.end,
                             MaxPages)
                = List(ledger, res.entry, <<res.args.target>>, {}).list
    /\ (res.op = "RichListQuery" /\ res.io = {} /\ res.args.bookmark = <<>>
            /\ RichQuery(ledger, res.args.selector, res.args.target, MaxPages, {}).err = OK)
        => /\ res.err = OK
           /\ res.out.result
                \o (IF res.out.result = <<>> THEN <<>>
                    ELSE QueryPagesFrom(res.args.selector, res.args.target,
                                        res.args.pageSize, res.out.end, MaxPages))
                = RichQuery(ledger, res.args.selector, res.args.target, MaxPages, {}).result

\* the first page of one book out of three, with the key of the second book
\* as its bookmark
C20_Witness ==
    /\ res.op = "PaginateList" /\ res.io = {} /\ res.err = OK
    /\ res.args.start = <<>> /\ res.args.limit = 1
    /\ Len(List(ledger, res.entry, <<BookTarget>>, {}).list) = 3
    /\ res.out.result = <<Book(PartA, TitleX)>>
    /\ res.out.end = Key(Book(PartB, <<>>)).String

-----------------------------------------------------------------------------
(* Key encoding as a function of the key: KeyToString and the platform's    *)
(* SplitCompositeKey                                                        *)

\* a part that holds U+0000, which no composite key takes
PartWithNul == <<97, 0>>

KeyParts == {<<>>, PartA, PartB, BookEntity, PartWithNul}

MaxKeyLen == 3

\* the keys of at most MaxKeyLen parts
EncodedKeys == UNION {[1..n -> KeyParts] : n \in 0..MaxKeyLen}

DoKeyToString(keys) ==
    \E key \in keys :
        LET r == KeyToString(key)
        IN  /\ res' = Outcome("KeyToString", KeyValue(key), <<>>, {}, r.err,
                              StringValue(r.str))
            /\ UNCHANGED <<ledger, history, historyDB, txCount, written, query, private,
                         keyTransformer, pending>>

NextKeys == DoKeyToString(EncodedKeys)

SpecKeys == Init /\ [][NextKeys]_vars

\* C24: encoding an empty key fails with ErrKeyPartsLength; a key of one part
\* encodes to that part unchanged; a key of two or more parts encodes to the
\* platform's composite key of part 0 as object type and the other parts as
\* attributes (and fails when the platform refuses a part).
C24_KeyEncodingCases ==
    res.op = "KeyToString"
        => CASE Len(res.key) = 0 -> res.err = ErrKeyPartsLength
             [] Len(res.key) = 1 -> res.err = OK /\ res.out.s = res.key[1]
             [] OTHER ->
                    LET composite == CreateCompositeKey(res.key[1], Tail(res.key))
                    IN  /\ res.err = composite.err
                        /\ res.err = OK
                            => /\ res.out.s = composite.str
                               /\ res.out.s = CompositeKeyNamespace
                                    \o Concat([i \in 1..Len(res.key) |->
                                                res.key[i] \o MinUnicodeRune])

\* a key of three parts, one of them empty, is encoded
C24_Witness ==
    /\ res.op = "KeyToString" /\ res.err = OK
    /\ res.key = <<BookEntity, <<>>, PartA>>
    /\ res.out.s = <<0>> \o BookEntity \o <<0, 0>> \o PartA \o <<0>>

\* the parts SplitCompositeKey finds in an encoded key; the empty string has
\* none
SplitEncoded(str) == IF str = <<>> THEN <<>> ELSE SplitCompositeKey(str)

\* C26: for every non-empty sequence of parts K, also of a single part,
\* splitting the key the engine encodes K to gives K.
C26_KeyRoundTrip_AnyLength ==
    (res.op = "KeyToString" /\ Len(res.key) >= 1 /\ res.err = OK)
        => SplitEncoded(res.out.s) = res.key

\* C26, amended: for every sequence K of two or more parts that the platform
\* takes, splitting the key the engine encodes K to gives K; a key of one part
\* is encoded as the part itself, which is no composite key.
C26_KeyRoundTrip ==
    (res.op = "KeyToString" /\ Len(res.key) >= 2 /\ res.err = OK)
        => SplitCompositeKey(res.out.s) = res.key

\* a key of three parts with an empty part in the middle went round
C26_Witness ==
    /\ res.op = "KeyToString" /\ res.err = OK
    /\ res.key = <<BookEntity, <<>>, PartB>>
    /\ SplitCompositeKey(res.out.s) = <<BookEntity, <<>>, PartB>>

-----------------------------------------------------------------------------
(* The key an operation addresses, under the default key transformer and    *)
(* under one that is not idempotent                                         *)

TransformerWriteCalls ==
    {WriteCall(Book(PartA, TitleX), <<>>, {}),
     WriteCall(Book(PartA, TitleY), <<>>, {}),
     WriteCall(Book(PartB, TitleX), <<>>, {}),
     WriteCall(StringValue(BookEntity), <<StringValue(TitleX)>>, {}),
     WriteCall(ChanValue, <<>>, {})}

TransformerKeyCalls ==
    {ReadCall(e, <<>>, {}) :
        e \in {Book(PartA, <<>>), Book(PartB, <<>>), StringValue(BookEntity), ChanValue}}

TransformerGetCalls ==
    {ReadCall(Book(PartA, <<>>), <<BookTarget>>, {}),
     ReadCall(Book(PartB, <<>>), <<BookTarget>>, {}),
     ReadCall(StringValue(BookEntity), <<StringTarget>>, {})}

InitTransformer ==
    /\ ledger = <<>>
    /\ history = <<>>
    /\ historyDB = FALSE
    /\ txCount = 0
    /\ written = <<>>
    /\ query = NoQuery
    /\ private = NoPrivateData
    /\ keyTransformer \in {"KeyAsIs", "KeyPrefixed"}
    /\ pending = NonePending
    /\ res = Outcome("none", NoValue, <<>>, {}, OK, NoValue)

NextTransformer ==
    \/ DoPut(TransformerWriteCalls)
    \/ DoInsert(TransformerWriteCalls)
    \/ DoDelete(TransformerKeyCalls)
    \/ DoGet(TransformerGetCalls)
    \/ DoExists(TransformerKeyCalls)

SpecTransformer == InitTransformer /\ [][NextTransformer]_vars

\* the ledger key of an entry's key parts: the parts transformed once, encoded
AddressedKey(parts) ==
    IF keyTransformer = "KeyPrefixed"
    THEN CompositeKeyNamespace \o PrefixPart \o MinUnicodeRune
            \o Concat([i \in 1..Len(parts) |-> parts[i] \o MinUnicodeRune])
    ELSE IF Len(parts) = 1 THEN parts[1]
    ELSE CompositeKeyNamespace
            \o Concat([i \in 1..Len(parts) |-> parts[i] \o MinUnicodeRune])

\* the key parts that successful Put and Insert calls wrote and no Delete
\* followed
StoredParts == {parts \in DOMAIN written : Encoded(written[parts].value) # <<>>}

\* C25: for a given entry and key transformer, Get, Exists, Put, Insert and
\* Delete address the same ledger key, the entry's key transformed exactly
\* once and encoded: the ledger holds what Put and Insert wrote under just
\* these keys, Delete removes just them, Get and Exists read them, and Insert
\* writes to the key its existence check read.
C25_OneKeyPerEntry ==
    /\ DOMAIN ledger = {AddressedKey(parts) : parts \in StoredParts}
    /\ \A parts \in StoredParts :
            ledger[AddressedKey(parts)] = Encoded(written[parts].value)
    /\ (res.op = "Exists" /\ res.key # <<>>)
        => res.err = OK /\ res.out.b = (res.key \in StoredParts)
    /\ (res.op = "Get" /\ res.key # <<>>)
        => IF res.key \in StoredParts
           THEN res.err = OK /\ res.out = written[res.key].value
           ELSE res.err = ErrKeyNotFound
    /\ (res.op = "Insert" /\ res.key # <<>>)
        => IF Encoded(res.prev.value) # <<>>
           THEN res.err = ErrKeyAlreadyExists /\ WrittenAt(res.key) = res.prev
           ELSE res.err = OK /\ WrittenAt(res.key).by = "Insert"
    /\ (res.op = "Delete" /\ res.key # <<>>)
        => res.err = OK /\ AddressedKey(res.key) \notin DOMAIN ledger

\* under the prefixing transformer an Insert wrote a book that an earlier
\* Insert of another book left alone
C25_Witness ==
    /\ keyTransformer = "KeyPrefixed"
    /\ res.op = "Insert" /\ res.err = OK /\ res.entry = Book(PartB, TitleX)
    /\ DOMAIN ledger = {AddressedKey(<<BookEntity, PartA>>),
                        AddressedKey(<<BookEntity, PartB>>)}
    /\ written[<<BookEntity, PartA>>].by = "Insert"

-----------------------------------------------------------------------------
(* Private data: the engine's calls on a collection, next to the calls on   *)
(* the public key space that mirror its keys                                *)

PrivateCall(collection, entry, values, io) ==
    [collection |-> collection, entry |-> entry, values |-> values, io |-> io]

PrivateListCall(collection, usePrivateDataIterator, namespace, config, io) ==
    [collection |-> collection, usePrivateDataIterator |-> usePrivateDataIterator,
     namespace |-> namespace, config |-> config, io |-> io]

MirrorWriteCalls ==
    {WriteCall(Book(PartA, TitleX), <<>>, {}),
     WriteCall(Book(PartB, TitleY), <<>>, {}),
     WriteCall(ChanValue, <<>>, {}),
     WriteCall(StringValue(BookEntity), <<ChanValue>>, {}),
     WriteCall(Book(PartB, TitleX), <<EmptyString, EmptyString>>, {}),
     WriteCall(Book(PartA, TitleY), <<>>, {"GetState"})}

MirrorDeleteCalls ==
    {ReadCall(Book(PartA, <<>>), <<>>, {}),
     ReadCall(ChanValue, <<>>, {})}

PrivateWriteCalls ==
    {PrivateCall("c", Book(PartA, TitleX), <<>>, {}),
     PrivateCall("c", Book(PartA, TitleY), <<>>, {}),
     PrivateCall("c", Book(PartB, TitleX), <<>>, {}),
     PrivateCall("c", ChanValue, <<>>, {}),
     PrivateCall("c", StringValue(BookEntity), <<ChanValue>>, {}),
     PrivateCall("c", Book(PartB, TitleX), <<EmptyString, EmptyString>>, {}),
     PrivateCall("c", Book(PartA, TitleY), <<>>, {"PutPrivateData"}),
     PrivateCall("c", Book(PartA, TitleY), <<>>, {"GetPrivateData"})}

PrivateDeleteCalls ==
    {PrivateCall("c", Book(PartA, <<>>), <<>>, {}),
     PrivateCall("c", Book(PartB, <<>>), <<>>, {}),
     PrivateCall("c", ChanValue, <<>>, {}),
     PrivateCall("c", Book(PartA, <<>>), <<>>, {"DelPrivateData"})}

PrivateGetCalls ==
    {PrivateCall("c", Book(PartA, <<>>), <<BookTarget>>, {}),
     PrivateCall("c", Book(PartB, <<>>), <<BookTarget, DefaultBook>>, {}),
     PrivateCall("c", ChanValue, <<>>, {}),
     PrivateCall("c", Book(PartA, <<>>), <<BookTarget>>, {"GetPrivateData"})}

PrivateListNamespaces == {StringValue(BookEntity), KeyValue(<<BookEntity, PartA>>)}

PrivateListConfigs == {<<BookTarget>>, <<BookTarget, DefaultBook>>}

PrivateListCalls ==
    {PrivateListCall("c", usePrivateDataIterator, StringValue(BookEntity), config, {}) :
        usePrivateDataIterator \in BOOLEAN, config \in PrivateListConfigs}
        \cup {PrivateListCall("c", usePrivateDataIterator, namespace, <<BookTarget>>, {}) :
                usePrivateDataIterator \in BOOLEAN,
                namespace \in {KeyValue(<<BookEntity, PartA>>), ChanValue}}
        \cup {PrivateListCall("c", usePrivateDataIterator, StringValue(BookEntity),
                               <<BookTarget>>, io) :
                usePrivateDataIterator \in BOOLEAN,
                io \in {{"Iter"}, {"PrivateIter"}, {"Next"}, {"GetPrivateData"}}}

\* what a private-data call leaves of the engine's state
ApplyPrivate(r) ==
    /\ private' = r.p
    /\ UNCHANGED <<ledger, history, historyDB, txCount, written, query, keyTransformer,
                   pending>>

PrivateArgs(c, args) == [collection |-> c.collection, args |-> args]

DoPutPrivate(calls) ==
    \E c \in calls :
        LET r == PutPrivate(private, c.collection, c.entry, c.values, c.io)
        IN  /\ ApplyPrivate(r)
            /\ res' = Outcome("PutPrivate", c.entry, PrivateArgs(c, c.values), c.io,
                              r.err, NoValue)

DoInsertPrivate(calls) ==
    \E c \in calls :
        LET r == InsertPrivate(private, c.collection, c.entry, c.values, c.io)
        IN  /\ ApplyPrivate(r)
            /\ res' = Outcome("InsertPrivate", c.entry, PrivateArgs(c, c.values), c.io,
                              r.err, NoValue)

DoDeletePrivate(calls) ==
    \E c \in calls :
        LET r == DeletePrivate(private, c.collection, c.entry, c.io)
        IN  /\ ApplyPrivate(r)
            /\ res' = Outcome("DeletePrivate", c.entry, PrivateArgs(c, <<>>), c.io,
                              r.err, NoValue)

DoGetPrivate(calls) ==
    \E c \in calls :
        LET r == GetPrivate(private, c.collection, c.entry, c.values, c.io)
        IN  /\ res' = Outcome("GetPrivate", c.entry, PrivateArgs(c, c.values), c.io,
                              r.err, r.value)
            /\ UNCHANGED <<ledger, history, historyDB, txCount, written, query, private,
                           keyTransformer, pending>>

DoExistsPrivate(calls) ==
    \E c \in calls :
        LET r == ExistsPrivate(private, c.collection, c.entry, c.io)
        IN  /\ res' = Outcome("ExistsPrivate", c.entry, PrivateArgs(c, <<>>), c.io,
                              r.err, [t |-> "bool", b |-> r.exists])
            /\ UNCHANGED <<ledger, history, historyDB, txCount, written, query, private,
                           keyTransformer, pending>>

DoListPrivate(calls) ==
    \E c \in calls :
        LET r == ListPrivate(ledger, private, c.collection, c.usePrivateDataIterator,
                             c.namespace, c.config, c.io)
        IN  /\ res' = Outcome("ListPrivate", c.namespace,
                              [collection |-> c.collection,
                               usePrivateDataIterator |-> c.usePrivateDataIterator,
                               config |-> c.config],
                              c.io, r.err, [t |-> "list", items |-> r.list])
            /\ UNCHANGED <<ledger, history, historyDB, txCount, written, query, private,
                           keyTransformer, pending>>

NextPrivate ==
    \/ DoPut(MirrorWriteCalls)
    \/ DoInsert(MirrorWriteCalls)
    \/ DoDelete(MirrorDeleteCalls)
    \/ DoPutPrivate(PrivateWriteCalls)
    \/ DoInsertPrivate(PrivateWriteCalls)
    \/ DoDeletePrivate(PrivateDeleteCalls)
    \/ DoGetPrivate(PrivateGetCalls)
    \/ DoExistsPrivate(PrivateDeleteCalls)
    \/ DoListPrivate(PrivateListCalls)

SpecPrivate == InitTransformer /\ [][NextPrivate]_vars

WriteOps == {"Put", "Insert", "Delete", "PutPrivate", "InsertPrivate", "DeletePrivate"}

\* the keys whose bytes differ between two key spaces
ChangedKeys(l1, l2) ==
    {k \in DOMAIN l1 \cup DOMAIN l2 : GetState(l1, k) # GetState(l2, k)}

PrivateChangedKeys(p1, p2) ==
    UNION {{<<c, k>> : k \in ChangedKeys(p1[c], p2[c])} : c \in Collections}

\* C23: a Put, Insert, Delete, PutPrivate, InsertPrivate or DeletePrivate
\* changes at most one key of the public key space and the collections
\* together, and a call that returns an error (from key resolution, value
\* encoding, the argument count, the existence check, or the accessor)
\* changes none.
C23_AllOrNothing ==
    [][res'.op \in WriteOps
        => /\ Cardinality(ChangedKeys(ledger, ledger'))
                + Cardinality(PrivateChangedKeys(private, private')) <= 1
           /\ res'.err # OK => ledger' = ledger /\ private' = private]_vars

\* an InsertPrivate of another title for a book the collection holds was
\* refused, next to a public key space that holds a book too
C23_Witness ==
    /\ res.op = "InsertPrivate" /\ res.err = ErrKeyAlreadyExists
    /\ res.entry = Book(PartA, TitleY)
    /\ GetPrivateData(private, "c", Key(res.entry).String) = Encoded(Book(PartA, TitleX))
    /\ DOMAIN ledger # {}


\* the rows of a key space under the namespace of the last listing, as the
\* engine's key transformer and the accessor's composite keys lay it out
RowsUnderNamespace(l) ==
    LET key == StateKeyTransformer(res.key).key
        partial == CreateCompositeKey(key[1], Tail(key)).str
    IN  GetStateByRange(l, partial, partial \o MaxUnicodeRune)

KeysOfRows(rows) == {rows[i].Key : i \in DOMAIN rows}

\* the item a listing has for the bytes bb of a key, absent when bb is empty
ItemOf(bb, config) ==
    IF Len(bb) = 0
    THEN IF Len(config) >= 2 THEN [err |-> OK, value |-> config[2]]
         ELSE [err |-> ErrKeyNotFound, value |-> NoValue]
    ELSE StateGetTransformer(bb, config)

\* the listing of the items, all or nothing
ListingOf(items) ==
    IF \A i \in DOMAIN items : items[i].err = OK
    THEN [ok |-> TRUE, list |-> [i \in DOMAIN items |-> items[i].value]]
    ELSE [ok |-> FALSE, list |-> <<>>]

\* what the last call, a ListPrivate, returned
ListingReturned == [ok |-> res.err = OK, list |-> res.out.items]

\* a ListPrivate with a namespace that resolves, during which the accessor
\* does not fail
ListedPrivate == res.op = "ListPrivate" /\ res.key # <<>> /\ res.io = {}

\* C27: ListPrivate with usePrivateDataIterator = false goes through the keys
\* of the public key space under the namespace and returns, for each, the
\* value the collection holds under that same encoded key; with
\* usePrivateDataIterator = true it goes through the keys of the collection
\* under the namespace and returns their values, whatever the public key
\* space holds.
C27_ListPrivateStrategies ==
    ListedPrivate
        => LET config == res.args.config
               c == res.args.collection
               public == RowsUnderNamespace(ledger)
               own == RowsUnderNamespace(private[c])
           IN  IF res.args.usePrivateDataIterator
               THEN /\ ListingReturned
                        = ListingOf([i \in DOMAIN own |-> ItemOf(own[i].Value, config)])
                    /\ ListPrivate(<<>>, private, c, TRUE, res.entry, config, res.io).list
                        = res.out.items
               ELSE ListingReturned
                        = ListingOf([i \in DOMAIN public |->
                                ItemOf(GetPrivateData(private, c, public[i].Key), config)])

\* C30: when the keys of the public key space under the namespace are the
\* keys of the collection under it, ListPrivate returns the same sequence
\* with either strategy; when a public key under the namespace has no value
\* in the collection and no default is supplied, the strategy that goes
\* through the public keys fails the whole listing.
C30_StrategiesEquivalent ==
    ListedPrivate
        => LET config == res.args.config
               c == res.args.collection
               publicKeys == KeysOfRows(RowsUnderNamespace(ledger))
               ownKeys == KeysOfRows(RowsUnderNamespace(private[c]))
               other == ListPrivate(ledger, private, c, ~res.args.usePrivateDataIterator,
                                    res.entry, config, res.io)
           IN  /\ publicKeys = ownKeys
                    => ListingReturned = [ok |-> other.err = OK, list |-> other.list]
               /\ (~res.args.usePrivateDataIterator /\ Len(config) < 2
                        /\ publicKeys \ DOMAIN private[c] # {})
                    => res.err # OK /\ res.out.items = <<>>

-----------------------------------------------------------------------------
(* The iterators of the scans: every listing, history and query call of the *)
(* engine, over a public key space and a collection                         *)

ScanWriteCalls ==
    {WriteCall(Book(PartA, TitleX), <<>>, {}),
     WriteCall(Book(PartB, TitleY), <<>>, {}),
     WriteCall(KeyValue(<<BookEntity, PartB>>), <<StringValue(TitleX)>>, {})}

ScanPrivateWriteCalls ==
    {PrivateCall("c", Book(PartA, TitleX), <<>>, {}),
     PrivateCall("c", KeyValue(<<BookEntity, PartB>>), <<StringValue(TitleX)>>, {})}

ScanPaginateCalls ==
    {PageCall(StringValue(BookEntity), BookTarget, limit, <<>>, {}) : limit \in PageSizes}
        \cup {PageCall(StringValue(BookEntity), BookTarget, 2, <<>>, io) :
                io \in {{"Iter"}, {"Next"}}}
        \cup {PageCall(ChanValue, BookTarget, 2, <<>>, {})}

ScanRichQueryCalls ==
    {QueryCall(AnyQuery, BookTarget, pageSize, <<>>, {}) : pageSize \in {1, 3}}
        \cup {QueryCall(AnyQuery, BookTarget, 3, <<>>, io) : io \in {{"Iter"}, {"Next"}}}

ScanRichListCalls ==
    {QueryCall(AnyQuery, BookTarget, 2, <<>>, io) : io \in {{}, {"Iter"}, {"Next"}}}

ScanPrivateListCalls ==
    {PrivateListCall("c", usePrivateDataIterator, StringValue(BookEntity), <<BookTarget>>, io) :
        usePrivateDataIterator \in BOOLEAN,
        io \in {{}, {"Iter"}, {"PrivateIter"}, {"Next"}}}
        \cup {PrivateListCall("c", FALSE, ChanValue, <<BookTarget>>, {})}

NextScans ==
    \/ DoPut(ScanWriteCalls)
    \/ DoPutPrivate(ScanPrivateWriteCalls)
    \/ DoList(PagingListCalls)
    \/ DoListPrivate(ScanPrivateListCalls)
    \/ DoPaginateList(ScanPaginateCalls)
    \/ DoGetHistory(PagingHistoryCalls)
    \/ DoRichQuery(ScanRichQueryCalls)
    \/ DoRichListQuery(ScanRichListCalls)

SpecScans == InitHistory /\ [][NextScans]_vars

IteratorOps == ScanOps \cup {"ListPrivate"}

\* the last call, a scan, with the iterators it obtained and closed
ScanOfCall ==
    CASE res.op = "List" -> List(ledger, res.entry, res.args, res.io)
      [] res.op = "ListPrivate" ->
            ListPrivate(ledger, private, res.args.collection,
                        res.args.usePrivateDataIterator, res.entry, res.args.config,
                        res.io)
      [] res.op = "GetHistory" ->
            GetHistory(history, res.entry, res.args[1],
                       IF historyDB THEN res.io ELSE res.io \cup {"NoHistoryDB"})
      [] res.op = "PaginateList" ->
            PaginateList(ledger, res.entry, res.args.target, res.args.limit,
                         res.args.start, res.io)
      [] res.op = "RichQuery" ->
            RichQuery(ledger, res.args.selector, res.args.target, res.args.pageSize,
                      res.io)
      [] res.op = "RichListQuery" ->
            RichListQuery(ledger, res.args.selector, res.args.target,
                          res.args.pageSize, res.args.bookmark, res.io)

\* the accessor handed the last call an iterator: the call got as far as
\* asking for one, and the accessor did not fail
IteratorObtained ==
    /\ res.op \in {"List", "ListPrivate", "GetHistory", "PaginateList"} => res.key # <<>>
    /\ IF res.op = "ListPrivate" /\ res.args.usePrivateDataIterator
       THEN "PrivateIter" \notin res.io
       ELSE "Iter" \notin res.io
    /\ res.op = "GetHistory" => historyDB
    /\ res.op \in {"RichQuery", "RichListQuery"} => ~MalformedQuery(res.args.selector)

-----------------------------------------------------------------------------
(* Concurrent transactions.  The platform simulates a transaction against   *)
(* the committed state, collecting the versions of the keys it read and the *)
(* values it wrote, and at commit applies the writes if every key read      *)
(* still has the version read; otherwise it rejects the transaction.        *)
(* pending.txs holds the transactions simulated, pending.n their number.    *)

MaxPending == 3

MVCCReadConflict == "MVCC_READ_CONFLICT"

\* the version of a key in the committed state: the transaction that wrote it
\* last, 0 (none) for a key that is not present
Version(key) ==
    IF key \in DOMAIN ledger THEN history[key][Len(history[key])].TxId ELSE 0

\* the committed state with key present or not
WithKey(key, present) ==
    [W EXCEPT !.ledger =
        [k \in (IF present THEN DOMAIN ledger \cup {key} ELSE DOMAIN ledger \ {key}) |->
            IF k = key THEN <<1>> ELSE ledger[k]]]

\* the keys a simulated Insert read: those on whose committed value its
\* outcome depends
ReadSet(entry, values, io) ==
    {key \in {Key(entry).String} :
        /\ Key(entry).err = OK
        /\ Insert(WithKey(key, TRUE), entry, values, io).err
            # Insert(WithKey(key, FALSE), entry, values, io).err}

\* the simulation of a transaction that calls Insert: nothing is committed
Simulate(id, entry, values, io) ==
    LET r == Insert(W, entry, values, io)
        keys == ChangedKeys(ledger, r.w.ledger)
    IN  [id |-> id, entry |-> entry, values |-> values, base |-> txCount, err |-> r.err,
         reads |-> {[key |-> k, version |-> Version(k)] : k \in ReadSet(entry, values, io)},
         writes |-> [k \in keys |-> GetState(r.w.ledger, k)],
         status |-> "simulated"]

\* the writes of a transaction, committed as one transaction
RECURSIVE CommitWrites(_, _, _)
CommitWrites(w, writes, keys) ==
    IF keys = {} THEN w
    ELSE LET k == CHOOSE x \in keys : TRUE
             c == Commit(w, k, Len(writes[k]) = 0, writes[k])
         IN  CommitWrites([c EXCEPT !.tx = w.tx], writes, keys \ {k})

\* commit-time validation: every key read has the version read
Valid(t) == \A rd \in t.reads : Version(rd.key) = rd.version

ConcurrentCalls ==
    {WriteCall(Book(PartA, TitleX), <<>>, {}),
     WriteCall(Book(PartA, TitleY), <<>>, {}),
     WriteCall(Book(PartB, TitleX), <<>>, {}),
     WriteCall(ChanValue, <<>>, {})}

DoSimulateInsert(calls) ==
    \E c \in calls :
        LET t == Simulate(pending.n + 1, c.entry, c.values, c.io)
        IN  /\ pending.n < MaxPending
            /\ pending' = [txs |-> pending.txs \cup {t}, n |-> pending.n + 1]
            /\ res' = Outcome("SimulateInsert", c.entry, c.values, c.io, t.err, NoValue)
            /\ UNCHANGED <<ledger, history, historyDB, txCount, written, query, private,
                           keyTransformer>>

\* a transaction whose chaincode call succeeded is ordered and validated
DoCommit ==
    \E t \in pending.txs :
        LET c == CommitWrites(W, t.writes, DOMAIN t.writes)
            w == IF Valid(t) THEN [c EXCEPT !.tx = W.tx + 1] ELSE W
            status == IF Valid(t) THEN "committed" ELSE "rejected"
        IN  /\ t.status = "simulated" /\ t.err = OK
            /\ ledger' = w.ledger
            /\ history' = w.history
            /\ txCount' = w.tx
            /\ pending' = [pending EXCEPT
                            !.txs = (@ \ {t}) \cup {[t EXCEPT !.status = status]}]
            /\ res' = Outcome("Commit", t.entry, t.values, {},
                              IF Valid(t) THEN OK ELSE MVCCReadConflict, NoValue)
            /\ UNCHANGED <<historyDB, written, query, private, keyTransformer>>

NextConcurrent ==
    \/ DoSimulateInsert(ConcurrentCalls)
    \/ DoCommit

SpecConcurrent == InitHistory /\ [][NextConcurrent]_vars

\* the ledger key and the value of the Insert a transaction called
KeyOfTx(t) == Key(t.entry).String
ValueOfTx(t) == Encoded(argKeyValue(t.entry, t.values).value)

Committed(key) == {t \in pending.txs : t.status = "committed" /\ KeyOfTx(t) = key}

\* C22: an Insert simulated while the committed state has no value under its
\* key succeeds, whatever other transactions on that key were simulated and
\* not yet committed; of the transactions on a key simulated against the
\* same committed state at most one commits, the others are rejected at
\* commit; a key holds the value of the one transaction that committed it.
C22_PreCheckAdvisory ==
    /\ \A t \in pending.txs :
            (Key(t.entry).err = OK /\ \A rd \in t.reads : rd.version = 0) => t.err = OK
    /\ \A t1, t2 \in pending.txs :
            (/\ t1.id # t2.id /\ t1.err = OK /\ t2.err = OK
             /\ KeyOfTx(t1) = KeyOfTx(t2) /\ t1.base = t2.base)
                => ~(t1.status = "committed" /\ t2.status = "committed")
    /\ \A key \in DOMAIN ledger :
            /\ Cardinality(Committed(key)) = 1
            /\ \A t \in Committed(key) : ledger[key] = ValueOfTx(t)

\* two Inserts of one book succeeded in simulation against the same committed
\* state; one committed, the other was rejected
C22_Witness ==
    /\ res.op = "Commit" /\ res.err = MVCCReadConflict
    /\ \E t1, t2 \in pending.txs :
            /\ KeyOfTx(t1) = KeyOfTx(t2) /\ t1.base = t2.base
            /\ t1.err = OK /\ t2.err = OK
            /\ ValueOfTx(t1) # ValueOfTx(t2)
            /\ t1.status = "committed" /\ t2.status = "rejected"
            /\ ledger[KeyOfTx(t1)] = ValueOfTx(t1)

-----------------------------------------------------------------------------
(* The invocation boundary: src/router/context.go, with the error codes of  *)
(* src/errors/errors.go.  A handler is given by what it returns in the      *)
(* invocation at hand; the group has no middleware.                         *)

ErrUnableToCreateEventName == "unable to create event name"
ErrStateEntryNotSupportKeyerInterface == "state entry not support keyer interface"
ErrEventEntryNotSupportNamerInterface == "event entry not support name interface"
ErrEmptyArgs == "empty args"
ErrMethodNotFound == "chaincode method not found"
ErrArgsNumMismatch == "chaincode method args count mismatch"
ErrHandlerError == "router handler error"
CertificateError == "certificate error"

\* the status codes of the platform's responses
shim == [OK |-> 200, ERROR |-> 500]

\* errors.GetErrorMappings()
errMap ==
    (UnexpectedError :> 599)
    @@ (ErrUnableToCreateStateKey :> 599)
    @@ (ErrUnableToCreateEventName :> 599)
    @@ (ErrKeyAlreadyExists :> 401)
    @@ (ErrKeyNotFound :> 402)
    @@ (ErrAllowOnlyOneValue :> 599)
    @@ (ErrStateEntryNotSupportKeyerInterface :> 599)
    @@ (ErrEventEntryNotSupportNamerInterface :> 599)
    @@ (ErrKeyPartsLength :> 599)
    @@ (SetGetError :> 500)
    @@ (NoQuerySelectorError :> 400)
    @@ (InvalidSortQueryError :> 400)
    @@ (ErrEmptyArgs :> 400)
    @@ (ErrMethodNotFound :> 404)
    @@ (ErrArgsNumMismatch :> 400)
    @@ (ErrHandlerError :> 599)
    @@ (CertificateError :> 400)

Response(status, message, payload) ==
    [Status |-> status, Message |-> message, Payload |-> payload]

\* response.Create(data, err): an error response for an error, and else a
\* success with the encoded data
Create(data, err) ==
    IF err # OK THEN Response(shim.ERROR, err, <<>>)
    ELSE Response(shim.OK, OK, ToBytes(data).bytes)

\* variant: the group's error mapping is not looked at
getErrorCode_Generic(g, err) == shim.ERROR

\* Group.getErrorCode(err)
getErrorCode(g, err) == IF err \in DOMAIN g.Errs THEN g.Errs[err] ELSE shim.ERROR

\* Group.handleContext(c), c.Path() = path
handleContext(g, path) ==
    IF path \in DOMAIN g.StubHandlers THEN g.StubHandlers[path]
    ELSE IF path \in DOMAIN g.ContextHandlers THEN g.ContextHandlers[path]
    ELSE IF path \in DOMAIN g.Handlers
    THEN LET h == g.Handlers[path]
             resp == Create(h.data, h.err)
         IN  IF resp.Status # shim.OK
             THEN [resp EXCEPT !.Status = getErrorCode(g, h.err)]
             ELSE resp
    ELSE Response(shim.ERROR, ErrMethodNotFound, <<>>)

\* an error of the chaincode's own
ErrNotAllowed == "not allowed"

\* the error mappings of a group: none (router.New), and those handed to
\* NewWithErrorMappings: the engine's, the engine's with a code for an error
\* of the chaincode, and one that registers the OK status for an error
ErrorMappings ==
    {<<>>, errMap, errMap @@ (ErrNotAllowed :> 403), (ErrKeyNotFound :> 200)}

HandlerErrors ==
    DOMAIN errMap \cup {ErrNotAllowed, StubError, CreateListIteratorError, DecodeError}

\* what a handler returns: a value, an error, or an error next to a value
HandlerReturns ==
    {[data |-> data, err |-> OK] :
        data \in {StringValue(TitleX), StringValue(<<>>), IntValue(7), Book(PartA, TitleX),
                  KeyValue(<<BookEntity, PartA>>)}}
        \cup {[data |-> NoValue, err |-> err] : err \in HandlerErrors}
        \cup {[data |-> Book(PartA, TitleX), err |-> ErrKeyAlreadyExists]}

Pong == Response(shim.OK, OK, <<112>>)

Groups ==
    {[StubHandlers |-> ("ping" :> Pong), ContextHandlers |-> ("deny" :> denied),
      Handlers |-> ("call" :> h), Errs |-> errs] :
        denied \in {Response(shim.ERROR, ErrNotAllowed, <<>>)},
        h \in HandlerReturns, errs \in ErrorMappings}

DoHandle ==
    \E g \in Groups, path \in {"ping", "deny", "call", "none"} :
        LET h == g.Handlers["call"]
            resp == handleContext(g, path)
        IN  /\ res' = Outcome("Handle", NoValue,
                              [path |-> path, Errs |-> g.Errs, data |-> h.data],
                              {}, IF path = "call" THEN h.err ELSE OK, resp)
            /\ UNCHANGED <<ledger, history, historyDB, txCount, written, query, private,
                           keyTransformer, pending>>

NextRouter == DoHandle

SpecRouter == Init /\ [][NextRouter]_vars

\* the last invocation reached a handler that returns a value and an error
Handled == res.op = "Handle" /\ res.args.path = "call"

\* the code the group's mapping registers for the handler's error, the
\* generic error status when it registers none
RegisteredCode ==
    IF res.err \in DOMAIN res.args.Errs THEN res.args.Errs[res.err] ELSE 500

\* C28 as stated: a handler that returns an error never yields an OK
\* response, and the status is the code registered for the error in the
\* group's error mapping, 500 when none is; a handler that returns no error
\* yields OK with the encoded value.
C28_ErrorNeverOK ==
    Handled
        => IF res.err # OK
           THEN res.out.Status # 200 /\ res.out.Status = RegisteredCode
           ELSE res.out.Status = 200 /\ res.out.Payload = Encoded(res.args.data)

\* C28, amended: the response of a handler that returns an error has the code
\* registered for the error in the group's error mapping, 500 when none is,
\* and the error as message; it is an OK response only when the mapping
\* registers the OK status for the error, which the engine's mapping does for
\* none; a handler that returns no error yields OK with the encoded value.
C28_StatusFromMapping ==
    /\ Handled
        => IF res.err # OK
           THEN /\ res.out.Status = RegisteredCode
                /\ res.out.Message = res.err
                /\ res.out.Status = 200
                    => res.err \in DOMAIN res.args.Errs /\ res.args.Errs[res.err] = 200
           ELSE res.out.Status = 200 /\ res.out.Payload = Encoded(res.args.data)
    /\ \A err \in DOMAIN errMap : errMap[err] # 200

\* a handler's ErrKeyAlreadyExists went out with the code the engine's
\* mapping registers for it
C28_Witness ==
    /\ Handled /\ res.err = ErrKeyAlreadyExists /\ res.args.Errs = errMap
    /\ res.out.Status = 401

-----------------------------------------------------------------------------
(* Argument decryption before the router:                                   *)
(* src/extensions/encryption/encryption.go.  The cipher stands for the      *)
(* platform's AES entity: a ciphertext opens under the key it was made with *)
(* and under no other.                                                      *)

TransientMapKey == "ENCODE_KEY"

\* "init"
InitFunc == <<105, 110, 105, 116>>

ErrKeyNotDefinedInTransientMap == "encryption key is not defined in transient map"
TransientError == "transient map error"
EncrypterError == "encrypter entity error"
DecryptionError == "args: decryption error"

ValidKey(key) == Len(key) = 1

\* Encrypt(key, value) of bytes: [err, bytes]
Encrypt(key, value) ==
    IF ~ValidKey(key) THEN [err |-> EncrypterError, bytes |-> <<>>]
    ELSE [err |-> OK, bytes |-> key \o value]

\* Decrypt(key, value): [err, bytes]
Decrypt(key, value) ==
    IF ~ValidKey(key) THEN [err |-> EncrypterError, bytes |-> <<>>]
    ELSE IF Len(value) = 0 \/ SubSeq(value, 1, 1) # key
    THEN [err |-> DecryptionError, bytes |-> <<>>]
    ELSE [err |-> OK, bytes |-> Tail(value)]

\* DecryptArgs(key, args): [err, args]; a leading "init" is left as it is
DecryptArgs(key, args) ==
    LET dargs == [i \in DOMAIN args |->
                    IF i = 1 /\ args[i] = InitFunc THEN [err |-> OK, bytes |-> args[i]]
                    ELSE Decrypt(key, args[i])]
    IN  IF \E i \in DOMAIN args : dargs[i].err # OK
        THEN [err |-> DecryptionError, args |-> <<>>]
        ELSE [err |-> OK, args |-> [i \in DOMAIN args |-> dargs[i].bytes]]

\* KeyFromTransient(c): the key of the transient map the platform hands out,
\* which may fail to: [err, key]
KeyFromTransient(c) ==
    IF c.transient.err # OK THEN [err |-> c.transient.err, key |-> <<>>]
    ELSE IF TransientMapKey \notin DOMAIN c.transient.map
    THEN [err |-> ErrKeyNotDefinedInTransientMap, key |-> <<>>]
    ELSE [err |-> OK, key |-> c.transient.map[TransientMapKey]]

\* the next handler, called with the context's arguments
NextHandler(args, replaced) ==
    [invoked |-> TRUE, args |-> args, replaced |-> replaced,
     response |-> Response(shim.OK, OK, <<>>)]

NotInvoked(err) ==
    [invoked |-> FALSE, args |-> <<>>, replaced |-> FALSE,
     response |-> Response(shim.ERROR, err, <<>>)]

\* decryptReplaceArgs(key, c): [err, args], args the arguments of c afterwards
decryptReplaceArgs(key, c) ==
    LET d == DecryptArgs(key, c.args)
    IN  IF d.err # OK THEN [err |-> d.err, args |-> c.args]
        ELSE [err |-> OK, args |-> d.args]

\* argsDecryptor(next, keyShouldBeProvided)(c)
argsDecryptor(keyShouldBeProvided, c) ==
    LET key == KeyFromTransient(c)
        d == decryptReplaceArgs(key.key, c)
    IN  IF key.err # OK
        THEN IF key.err = ErrKeyNotDefinedInTransientMap /\ keyShouldBeProvided
             THEN NotInvoked(key.err)
             ELSE NextHandler(c.args, FALSE)
        ELSE IF d.err # OK THEN NotInvoked(d.err)
        ELSE NextHandler(d.args, TRUE)

ArgsDecrypt(c) == argsDecryptor(TRUE, c)

ArgsDecryptIfKeyProvided(c) == argsDecryptor(FALSE, c)

KeyOne == <<1>>
KeyTwo == <<2>>

Transients ==
    {[err |-> TransientError, map |-> <<>>], [err |-> OK, map |-> <<>>]}
        \cup {[err |-> OK, map |-> (TransientMapKey :> key)] :
                key \in {KeyOne, KeyTwo, <<>>}}

EncryptedArgs ==
    {InitFunc, PartA, Encrypt(KeyOne, PartA).bytes, Encrypt(KeyOne, InitFunc).bytes,
     Encrypt(KeyTwo, PartA).bytes}

ArgLists == UNION {[1..n -> EncryptedArgs] : n \in 1..2}

DoArgsDecrypt ==
    \E keyShouldBeProvided \in BOOLEAN, transient \in Transients, args \in ArgLists :
        LET c == [transient |-> transient, args |-> args]
            r == IF keyShouldBeProvided THEN ArgsDecrypt(c) ELSE ArgsDecryptIfKeyProvided(c)
        IN  /\ res' = Outcome("ArgsDecrypt", NoValue,
                              [keyShouldBeProvided |-> keyShouldBeProvided,
                               transient |-> transient, args |-> args],
                              {}, IF r.invoked THEN OK ELSE r.response.Message, r)
            /\ UNCHANGED <<ledger, history, historyDB, txCount, written, query, private,
                           keyTransformer, pending>>

NextEncryption == DoArgsDecrypt

SpecEncryption == Init /\ [][NextEncryption]_vars

\* the transient map of the last call holds a key
KeyProvided ==
    res.args.transient.err = OK /\ TransientMapKey \in DOMAIN res.args.transient.map

\* argument i of the last call opens under the key of the transient map
Decrypts(i) ==
    Decrypt(res.args.transient.map[TransientMapKey], res.args.args[i]).err = OK

LeadingInit(i) == i = 1 /\ res.args.args[i] = InitFunc

\* C29: ArgsDecrypt calls the next handler only with arguments that were
\* decrypted (a leading "init" aside): when the key cannot be obtained from
\* the transient map, for whatever reason, or an argument does not decrypt,
\* the response is an error and the next handler is not called;
\* ArgsDecryptIfKeyProvided hands the arguments on as they came only when
\* the transient map holds no key.
C29_NextOnlyWithDecrypted ==
    res.op = "ArgsDecrypt"
        => LET args == res.args.args
               failing == \/ ~KeyProvided
                          \/ \E i \in DOMAIN args : ~LeadingInit(i) /\ ~Decrypts(i)
           IN  IF res.args.keyShouldBeProvided
               THEN /\ res.out.invoked
                        => /\ ~failing
                           /\ res.out.args = DecryptArgs(
                                res.args.transient.map[TransientMapKey], args).args
                    /\ failing => ~res.out.invoked /\ res.out.response.Status # 200
               ELSE (res.out.invoked /\ ~res.out.replaced)
                        => res.args.transient.err = OK /\ ~KeyProvided

-----------------------------------------------------------------------------
(* Partitions: the public key space and two collections, written and read   *)
(* under the same keys                                                      *)

PartitionWriteCalls ==
    {WriteCall(Book(PartA, TitleX), <<>>, {}),
     WriteCall(Book(PartB, TitleX), <<>>, {}),
     WriteCall(ChanValue, <<>>, {})}

PartitionKeyCalls ==
    {ReadCall(Book(PartA, <<>>), <<BookTarget>>, {}),
     ReadCall(Book(PartB, <<>>), <<BookTarget>>, {})}

PartitionPrivateWriteCalls ==
    {PrivateCall("c", Book(PartA, TitleY), <<>>, {}),
     PrivateCall("c", Book(PartB, TitleY), <<>>, {}),
     PrivateCall("d", Book(PartA, <<122>>), <<>>, {}),
     PrivateCall("c", ChanValue, <<>>, {}),
     PrivateCall("d", Book(PartA, <<122>>), <<>>, {"PutPrivateData"})}

PartitionPrivateKeyCalls ==
    {PrivateCall(c, Book(id, <<>>), <<BookTarget>>, {}) :
        c \in Collections, id \in {PartA, PartB}}

NextPartitions ==
    \/ DoPut(PartitionWriteCalls)
    \/ DoInsert(PartitionWriteCalls)
    \/ DoDelete(PartitionKeyCalls)
    \/ DoGet(PartitionKeyCalls)
    \/ DoExists(PartitionKeyCalls)
    \/ DoPutPrivate(PartitionPrivateWriteCalls)
    \/ DoInsertPrivate(PartitionPrivateWriteCalls)
    \/ DoDeletePrivate(PartitionPrivateKeyCalls)
    \/ DoGetPrivate(PartitionPrivateKeyCalls)
    \/ DoExistsPrivate(PartitionPrivateKeyCalls)

SpecPartitions == Init /\ [][NextPartitions]_vars

PublicWriteOps == {"Put", "Insert", "Delete"}
PrivateWriteOps == {"PutPrivate", "InsertPrivate", "DeletePrivate"}

\* what a point read returns for the bytes bb of its key
PointRead(bb, op, config) ==
    IF op \in {"Exists", "ExistsPrivate"}
    THEN [err |-> OK, value |-> [t |-> "bool", b |-> Len(bb) # 0]]
    ELSE ItemOf(bb, config)

\* C31: PutPrivate, InsertPrivate and DeletePrivate on a collection change at
\* most the entry of the given key in that collection and leave the public
\* key space and every other collection as they were; Put, Insert and Delete
\* change at most the entry of the given key in the public key space and no
\* collection; Get and Exists return what the public key space holds under
\* the key, GetPrivate and ExistsPrivate what the named collection holds,
\* whatever the other partitions hold under it.
C31_PartitionIsolation ==
    [][/\ res'.op \in PrivateWriteOps
            => /\ ledger' = ledger
               /\ \A c \in Collections \ {res'.args.collection} : private'[c] = private[c]
               /\ ChangedKeys(private[res'.args.collection],
                              private'[res'.args.collection])
                    \subseteq {Key(res'.entry).String}
       /\ res'.op \in PublicWriteOps
            => /\ private' = private
               /\ ChangedKeys(ledger, ledger') \subseteq {Key(res'.entry).String}
       /\ (res'.op \in {"Get", "Exists"} /\ res'.key # <<>> /\ res'.io = {})
            => LET r == PointRead(GetState(ledger, Key(res'.entry).String), res'.op,
                                  res'.args)
               IN  res'.err = r.err /\ res'.out = r.value
       /\ (res'.op \in {"GetPrivate", "ExistsPrivate"} /\ res'.key # <<>> /\ res'.io = {})
            => LET r == PointRead(GetState(private[res'.args.collection],
                                           Key(res'.entry).String),
                                  res'.op, res'.args.args)
               IN  res'.err = r.err /\ res'.out = r.value]_vars

\* a GetPrivate returned the book of its collection while the public key
\* space and the other collection hold other books under the same key
C31_Witness ==
    /\ res.op = "GetPrivate" /\ res.args.collection = "c" /\ res.err = OK
    /\ res.out = Book(PartA, TitleY)
    /\ GetState(ledger, Key(res.entry).String) = Encoded(Book(PartA, TitleX))
    /\ GetPrivateData(private, "d", Key(res.entry).String) = Encoded(Book(PartA, <<122>>))

-----------------------------------------------------------------------------
(* Namespaces and keys without parts *)

EmptyKey == KeyValue(<<>>)

NamespaceWriteCalls ==
    {WriteCall(Book(PartA, TitleX), <<>>, {}),
     WriteCall(Book(PartB, TitleY), <<>>, {}),
     WriteCall(EmptyKey, <<StringValue(TitleX)>>, {})}

NamespacePrivateWriteCalls ==
    {PrivateCall("c", Book(PartA, TitleX), <<>>, {}),
     PrivateCall("c", EmptyKey, <<StringValue(TitleX)>>, {})}

NamespaceKeyCalls ==
    {ReadCall(e, <<BookTarget>>, {}) : e \in {EmptyKey, Book(PartA, <<>>), ChanValue}}

NamespaceListCalls ==
    {ReadCall(n, <<BookTarget>>, {}) :
        n \in {EmptyKey, StringValue(BookEntity), KeyValue(<<BookEntity, PartA>>),
               ChanValue}}

NamespacePrivateListCalls ==
    {PrivateListCall("c", usePrivateDataIterator, n, <<BookTarget>>, {}) :
        usePrivateDataIterator \in BOOLEAN,
        n \in {EmptyKey, StringValue(BookEntity), ChanValue}}

NextNamespaces ==
    \/ DoPut(NamespaceWriteCalls)
    \/ DoPutPrivate(NamespacePrivateWriteCalls)
    \/ DoDelete(NamespaceKeyCalls)
    \/ DoGet(NamespaceKeyCalls)
    \/ DoExists(NamespaceKeyCalls)
    \/ DoList(NamespaceListCalls)
    \/ DoListPrivate(NamespacePrivateListCalls)

SpecNamespaces == Init /\ [][NextNamespaces]_vars

\* the entry of the last call normalizes, and the key transformer leaves it,
\* without parts
ZeroLengthKey ==
    /\ NormalizeStateKey(res.entry).err = OK
    /\ StateKeyTransformer(NormalizeStateKey(res.entry).key).err = OK
    /\ Len(StateKeyTransformer(NormalizeStateKey(res.entry).key).key) = 0

\* the errors the engine returns
EngineErrors ==
    {UnexpectedError, SetGetError, ErrKeyNotFound, ErrKeyAlreadyExists,
     ErrAllowOnlyOneValue, ErrKeyPartsLength, ErrUnableToCreateStateKey}

\* C32: a call whose key or namespace has no part after normalization and
\* transformation hands no key to the ledger accessor: the point operations
\* and List and ListPrivate alike return an error of the engine and leave
\* the ledger as it is.
C32_NamespaceHasAPart ==
    (res.op \in {"Put", "Delete", "Get", "Exists", "PutPrivate", "List", "ListPrivate"}
        /\ ZeroLengthKey)
        => res.err \in EngineErrors


-----------------------------------------------------------------------------
(* Further properties of the query builder, checked under SpecQuery *)

\* bytes.Contains
Contains(s, sub) ==
    \E i \in 0..(Len(s) - Len(sub)) : SubSeq(s, i + 1, i + Len(sub)) = sub

\* C33: the selector Build compiles contains the rendered filters and child
\* combinations of every combination added to the builder, those of several
\* combinations of one type included.
C33_AllCombinationsCompiled ==
    (res.op = "Build" /\ res.err = OK)
        => \A i \in 1..Len(query.builder.Combinations) :
            LET items == RuleItemsOrNone(query.builder.Combinations[i])
            IN  \A j \in 1..Len(items) : Contains(res.out.q, Marshal(items[j]))


\* what a combination renders to under its type: in the selector, and as an
\* element of the array of a parent
RenderedInRoot(c) == addCombinationToRoot(EmptyMap, c)[c.Type]
RenderedInParent(c) ==
    LET m == addCombinationToParent(<<>>, c)[1].m
    IN  IF c.Type \in DOMAIN m THEN m[c.Type] ELSE JNull

\* the array holds every filter as a field -> value map and every other
\* argument as it was passed
HoldsEveryArgument(array, c) ==
    /\ array.j = "array"
    /\ \A i \in 1..Len(c.Filters) :
        \E j \in 1..Len(array.xs) :
            array.xs[j] = JMap(MapSet(EmptyMap, c.Filters[i].Field, c.Filters[i].Value))
    /\ \A i \in 1..Len(c.Conditions) :
        \E j \in 1..Len(array.xs) : array.xs[j] = c.Conditions[i].Value

\* C34: every argument of AddCombination, on the builder or on a combination,
\* is in the array the combination compiles to, a Filter as well as a value
\* that is no Filter, and a combination without filters and children compiles
\* to an empty array, not to null.
C34_EveryArgumentCompiled ==
    (res.op = "Build" /\ res.err = OK)
        => \A c \in Nodes(query.builder.Combinations) :
            /\ HoldsEveryArgument(RenderedInRoot(c), c)
            /\ HoldsEveryArgument(RenderedInParent(c), c)


\* C35: an AddManySorts that fails with InvalidSortSyntax leaves the sort list
\* of the builder as it was: the valid tokens before the malformed one are not
\* appended.
C35_SortsAllOrNothing ==
    (res.op = "AddManySorts" /\ res.err = InvalidSortQueryError)
        => query.builder.Sort = res.out.before


\* C36: Build leaves the builder and its combinations as they are, a second
\* Build in a row returns what the first returned, and what Build returns is
\* the same for every order in which it may range over the filters and the
\* conditions of the builder.
C36_BuildDeterministic ==
    [][/\ res'.op = "Build"
            => /\ query' = query
               /\ \A order \in RangeOrders(query.builder) :
                    Build(query.builder, order)
                        = [err |-> res'.err, query |-> res'.out.q]
       /\ (res.op = "Build" /\ res'.op = "Build")
            => (res'.err = res.err /\ res'.out = res.out)]_vars

\* a builder with two filters and a condition was compiled
C36_Witness ==
    /\ res.op = "Build" /\ res.err = OK
    /\ Cardinality(DOMAIN query.builder.Filters) = 2
    /\ Cardinality(DOMAIN query.builder.Conditions) = 1
    /\ Cardinality(RangeOrders(query.builder)) = 2


-----------------------------------------------------------------------------
(* The selector of builders whose doc type, filters, conditions and         *)
(* combinations meet on the same selector keys                              *)

GreaterThanTwo == JMap(MapSet(EmptyMap, GreaterThan, JNum(2)))

\* filters on the field docType, twice on the field name, on the field $or
MergeFilters ==
    {Filter(DocTypeKey, JStr(TitleX)), Filter(NameField, JStr(TitleX)),
     Filter(NameField, JNum(2)), Filter(OR, JNum(1))}

\* conditions on the fields name and $or
MergeConditions ==
    {[Field |-> NameField, Value |-> GreaterThanOne],
     [Field |-> NameField, Value |-> GreaterThanTwo],
     [Field |-> OR, Value |-> GreaterThanOne]}

DoMergeFilter ==
    \E f \in MergeFilters :
        Called("AddFilter", AddFilter(query.builder, f.Field, f.Value),
               <<f.Field, f.Value>>, OK, NoValue)

DoMergeCondition ==
    \E f \in MergeConditions :
        Called("AddCondition", AddCondition(query.builder, f.Field, f.Value),
               <<f.Field, f.Value>>, OK, NoValue)

NextMerge ==
    \/ DoSetDocType
    \/ DoMergeFilter
    \/ DoMergeCondition
    \/ DoAddCombination
    \/ DoBuildQuery

SpecMerge == Init /\ [][NextMerge]_vars

\* the selector keys of a builder that received selector calls only
MergedKeys(b) ==
    (IF b.DocType # <<>> THEN {DocTypeKey} ELSE {})
        \cup DOMAIN b.Filters \cup DOMAIN b.Conditions
        \cup {b.Combinations[i].Type : i \in 1..Len(b.Combinations)}

\* for each combination type of the builder, one of its combinations of that type
CombinationChoices(b) ==
    {ch \in [{b.Combinations[i].Type : i \in 1..Len(b.Combinations)}
                -> 1..Len(b.Combinations)] :
        \A t \in DOMAIN ch : b.Combinations[ch[t]].Type = t}

\* the value of the latest category that has the key
MergedValue(b, ch, k) ==
    IF k \in DOMAIN ch THEN RenderedInRoot(b.Combinations[ch[k]])
    ELSE IF k \in DOMAIN b.Conditions THEN b.Conditions[k]
    ELSE IF k \in DOMAIN b.Filters THEN b.Filters[k]
    ELSE JStr(b.DocType)

MergedQuery(b, ch) ==
    Marshal(JMap(MapSet(EmptyMap, SelectorKey,
                        JMap([k \in MergedKeys(b) |-> MergedValue(b, ch, k)]))))

\* C37: under a selector key that several of doc type, filters, conditions and
\* top-level combinations produce, Build keeps the value of the later one in
\* the order docType < filters < conditions < combinations; AddFilter and
\* AddCondition keep the value of the last call for a field.
C37_MergePrecedence ==
    [][/\ (res'.op = "Build" /\ res'.err = OK)
            => \E ch \in CombinationChoices(query.builder) :
                res'.out.q = MergedQuery(query.builder, ch)
       /\ (res'.op = "AddFilter" /\ query' # query)
            => query'.builder.Filters
                = MapSet(query.builder.Filters, res'.args[1], res'.args[2])
       /\ (res'.op = "AddCondition" /\ query' # query)
            => query'.builder.Conditions
                = MapSet(query.builder.Conditions, res'.args[1], res'.args[2])]_vars

\* {"selector":{"name":{"$gt":1}}}
SelectorNameCondition ==
    <<123, 34, 115, 101, 108, 101, 99, 116, 111, 114, 34, 58, 123, 34, 110,
      97, 109, 101, 34, 58, 123, 34, 36, 103, 116, 34, 58, 49, 125, 125, 125>>

\* a filter on name, then another filter on name, then a condition on name
\* were compiled: the condition is the value of name
C37_Witness ==
    /\ res.op = "Build" /\ res.err = OK
    /\ query.n = 3 /\ query.called = {"AddFilter", "AddCondition"}
    /\ query.builder.Filters = MapSet(EmptyMap, NameField, JNum(2))
    /\ query.builder.Conditions = MapSet(EmptyMap, NameField, GreaterThanOne)
    /\ res.out.q = SelectorNameCondition


-----------------------------------------------------------------------------
(* Rich queries with page sizes below, inside and above the number of rows  *)
(* the query selects                                                        *)

PageQueryCalls ==
    {QueryCall(AnyQuery, BookTarget, pageSize, <<>>, io) :
        pageSize \in {-1, 0, 1, 2, 3, 4}, io \in {{}, {"Next"}}}
        \cup {QueryCall(TitleQuery(TitleX), BookTarget, 1, <<>>, {})}

NextPages ==
    \/ DoPut(PagingWriteCalls)
    \/ DoRichQuery(PageQueryCalls)

SpecPages == InitHistory /\ [][NextPages]_vars

\* the rows the iterator of the last query yields, and the size of its page
YieldedRows == Iterator(QueryRows(ledger, res.args.selector, <<>>), res.io)
PageOf(n, pageSize) ==
    IF pageSize < 0 THEN 0 ELSE IF pageSize < n THEN pageSize ELSE n

\* the row can be fetched and decoded
RowDecodes(row, target) ==
    row.err = OK /\ StateGetTransformer(row.Value, <<target>>).err = OK

\* C38: RichQuery over an iterator that yields n rows returns the first
\* min(n, max(pageSize, 0)) rows, decoded, in the order of the iterator, and as
\* count the number of entries returned; it does not take a row behind the page
\* from the iterator, so a row there that cannot be fetched or decoded does not
\* fail the call.
C38_AtMostPageSize ==
    (res.op = "RichQuery" /\ "Iter" \notin res.io)
        => LET rows == YieldedRows
               k == PageOf(Len(rows), res.args.pageSize)
           IN  (\A j \in 1..k : RowDecodes(rows[j], res.args.target))
                => /\ res.err = OK
                   /\ Len(res.out.result) = k
                   /\ res.out.count = Len(res.out.result)
                   /\ \A j \in 1..k :
                        res.out.result[j]
                            = StateGetTransformer(rows[j].Value, <<res.args.target>>).value

\* a page of one book out of three rows, the row behind the page one that the
\* iterator fails to yield
C38_Witness ==
    /\ res.op = "RichQuery" /\ res.err = OK
    /\ res.args.pageSize = 1 /\ res.io = {"Next"}
    /\ Len(YieldedRows) = 3
    /\ ~RowDecodes(YieldedRows[2], res.args.target)
    /\ res.out.count = 1 /\ Len(res.out.result) = 1


-----------------------------------------------------------------------------
(* The router: dispatch of a request through the middleware of a group to   *)
(* one handler. A middleware is given by what it does when it is invoked:   *)
(* whether it calls the handler it wraps, and, for a pre-middleware, the    *)
(* arguments it replaces those of the context with. A wrapped handler is    *)
(* the sequence of its layers, the outermost first and the handler last.    *)

\* the args field of a context: nil until ReplaceArgs sets it
NilArgs == [nil |-> TRUE, v |-> <<>>]
ArgsOf(v) == [nil |-> FALSE, v |-> v]

\* NewContext(stub, logger)
NewContext(stub) == [stub |-> stub, args |-> NilArgs]

\* context.ReplaceArgs(args)
ReplaceArgs(c, args) == [c EXCEPT !.args = args]

\* context.GetArgs()
GetArgs(c) == IF ~c.args.nil THEN c.args.v ELSE c.stub

\* context.Path(), of a context that has arguments
Path(c) == GetArgs(c)[1]

Layer(kind, id, next, replace) ==
    [kind |-> kind, id |-> id, next |-> next, replace |-> replace]

\* a handler registered under the path in the map of that kind
HandlerOf(kind, path) == Layer(kind, path, FALSE, NilArgs)

NameOf(m) == <<m.kind, m.id>>

\* what an invoked handler or a middleware that does not call on returns
Returned(m) == Response(shim.OK, OK, NameOf(m))

\* the loop for i := len(ms) - 1; i >= 0; i-- { h = ms[i](h, i) }
RECURSIVE WrapFromLast(_, _)
WrapFromLast(h, ms) ==
    IF ms = <<>> THEN h
    ELSE WrapFromLast(<<ms[Len(ms)]>> \o h, SubSeq(ms, 1, Len(ms) - 1))

\* a wrapping of the after-middleware that starts from the last
WrapFromFirst_FromLast(h, ms) == WrapFromLast(h, ms)

\* the loop for i := 0; i <= len(ms)-1; i++ { h = ms[i](h, 0) }
RECURSIVE WrapFromFirst(_, _)
WrapFromFirst(h, ms) ==
    IF ms = <<>> THEN h
    ELSE WrapFromFirst(<<Head(ms)>> \o h, Tail(ms))

\* a call of a wrapped handler: [trace, err, resp], trace the layers invoked in
\* the order of their invocation, err a run-time panic
RECURSIVE Invoke(_)
Invoke(h) ==
    LET m == Head(h)
    IN  IF ~m.next THEN [trace |-> <<NameOf(m)>>, err |-> OK, resp |-> Returned(m)]
        ELSE [Invoke(Tail(h)) EXCEPT !.trace = <<NameOf(m)>> \o @]

\* the Hdl that Group.addHandler registers
addHandler(path, middleware) == WrapFromLast(<<HandlerOf("Handlers", path)>>, middleware)

\* Group.handleContext(c) with the middleware of the group
handleContextOf(g, c) ==
    IF Len(GetArgs(c)) = 0
    THEN [trace |-> <<>>, err |-> IndexOutOfRange, resp |-> NoValue]
    ELSE IF Path(c) \in g.StubHandlers
    THEN Invoke(<<HandlerOf("StubHandlers", Path(c))>>)
    ELSE IF Path(c) \in g.ContextHandlers
    THEN Invoke(WrapFromLast(<<HandlerOf("ContextHandlers", Path(c))>>,
                             g.ContextMiddleware))
    ELSE IF Path(c) \in DOMAIN g.Handlers
    THEN Invoke(WrapFromFirst(WrapFromLast(g.Handlers[Path(c)], g.Middleware),
                              g.AfterMiddleware))
    ELSE [trace |-> <<>>, err |-> OK,
          resp |-> Response(shim.ERROR, ErrMethodNotFound, <<>>)]

\* a call of the pre-middleware around handleContext
RECURSIVE InvokePre(_, _, _)
InvokePre(h, g, c) ==
    IF h = <<>> THEN handleContextOf(g, c)
    ELSE LET m == Head(h)
         IN  IF ~m.next
             THEN [trace |-> <<NameOf(m)>>, err |-> OK, resp |-> Returned(m)]
             ELSE [InvokePre(Tail(h), g,
                             IF m.replace.nil THEN c ELSE ReplaceArgs(c, m.replace))
                     EXCEPT !.trace = <<NameOf(m)>> \o @]

\* Group.buildHandler()(c)
buildHandler(g, c) == InvokePre(WrapFromLast(<<>>, g.PreMiddleware), g, c)

\* a Handle that does not look at the number of arguments
Handle_Unchecked(g, stub) == buildHandler(g, NewContext(stub))

\* Group.Handle(stub)
Handle(g, stub) ==
    IF Len(stub) = 0
    THEN [trace |-> <<>>, err |-> OK, resp |-> Response(shim.ERROR, ErrEmptyArgs, <<>>)]
    ELSE buildHandler(g, NewContext(stub))

\* Group.HandleInit(stub)
HandleInit(g, stub) ==
    buildHandler(g, ReplaceArgs(NewContext(stub), ArgsOf(<<"init">> \o stub)))


\* the middleware a group may register under each kind
MiddlewareIds == <<"1", "2">>
MiddlewareKinds ==
    {"PreMiddleware", "AfterMiddleware", "Middleware", "ContextMiddleware", "route"}
HandlerKinds == {"StubHandlers", "ContextHandlers", "Handlers"}

\* the middleware that do not call the handler they wrap: none, one, or two
\* of different kinds
BlockedSets ==
    {b \in SUBSET (MiddlewareKinds \X {"1", "2"}) : Cardinality(b) <= 1}
        \cup {{<<"PreMiddleware", "2">>, <<"AfterMiddleware", "1">>},
              {<<"AfterMiddleware", "2">>, <<"Middleware", "1">>},
              {<<"Middleware", "2">>, <<"route", "1">>}}

\* what the first pre-middleware passes to ReplaceArgs, nil for none
Replacements == {NilArgs, ArgsOf(<<"x">>), ArgsOf(<<>>)}

\* the n middleware of a kind in the order of their registration
Registered(kind, n, blocked, replace) ==
    [i \in 1..n |->
        Layer(kind, MiddlewareIds[i], <<kind, MiddlewareIds[i]>> \notin blocked,
              IF kind = "PreMiddleware" /\ i = 1 THEN replace ELSE NilArgs)]

\* groups after StubHandler("x"), ContextHandler("x"), ContextHandler("y"),
\* Invoke of "x", "y", "z" and "init" with the route middleware, and Pre, After
\* and Use with the middleware of their kind; ContextMiddleware is a field
RoutePaths == {"x", "y", "z", "init"}
DispatchGroups ==
    {[StubHandlers |-> {"x"},
      ContextHandlers |-> {"x", "y"},
      Handlers |-> [p \in RoutePaths |->
                        addHandler(p, Registered("route", n, blocked, NilArgs))],
      route |-> Registered("route", n, blocked, NilArgs),
      PreMiddleware |-> Registered("PreMiddleware", n, blocked, replace),
      AfterMiddleware |-> Registered("AfterMiddleware", n, blocked, NilArgs),
      Middleware |-> Registered("Middleware", n, blocked, NilArgs),
      ContextMiddleware |-> Registered("ContextMiddleware", n, blocked, NilArgs)] :
        n \in {0, 2}, blocked \in BlockedSets, replace \in Replacements}

\* the arguments of the stub
StubArgs == {<<>>, <<"x">>, <<"y">>, <<"z", "q">>, <<"none">>}

DoGroupHandle ==
    \E g \in DispatchGroups, stub \in StubArgs :
        LET r == Handle(g, stub)
        IN  /\ res' = Outcome("Group.Handle", NoValue, [g |-> g, stub |-> stub], {},
                              r.err, r)
            /\ UNCHANGED <<ledger, history, historyDB, txCount, written, query, private,
                           keyTransformer, pending>>

DoGroupHandleInit ==
    \E g \in DispatchGroups, stub \in StubArgs :
        LET r == HandleInit(g, stub)
        IN  /\ res' = Outcome("Group.HandleInit", NoValue, [g |-> g, stub |-> stub], {},
                              r.err, r)
            /\ UNCHANGED <<ledger, history, historyDB, txCount, written, query, private,
                           keyTransformer, pending>>

NextDispatch ==
    \/ DoGroupHandle
    \/ DoGroupHandleInit

SpecDispatch == Init /\ [][NextDispatch]_vars

\* the last call was a request to a group
Dispatched == res.op \in {"Group.Handle", "Group.HandleInit"}

\* the arguments the pre-middleware receive
InitialArgs ==
    IF res.op = "Group.HandleInit" THEN <<"init">> \o res.args.stub ELSE res.args.stub

\* every pre-middleware calls on
PreCallOn == \A i \in DOMAIN res.args.g.PreMiddleware : res.args.g.PreMiddleware[i].next

\* the arguments after the replacements of the pre-middleware
EffectiveArgs ==
    LET pre == res.args.g.PreMiddleware
        replacing == {i \in DOMAIN pre : ~pre[i].replace.nil}
    IN  IF replacing = {} THEN InitialArgs
        ELSE pre[CHOOSE i \in replacing : \A j \in replacing : j <= i].replace.v

\* the handler the maps of the group hold for the path: stub handlers first,
\* then context handlers, then handlers; <<>> when none holds it
FirstMatch(g, path) ==
    IF path \in g.StubHandlers THEN <<"StubHandlers", path>>
    ELSE IF path \in g.ContextHandlers THEN <<"ContextHandlers", path>>
    ELSE IF path \in DOMAIN g.Handlers THEN <<"Handlers", path>>
    ELSE <<>>

IsHandler(name) == name[1] \in HandlerKinds
HandlersInvoked == SelectSeq(res.out.trace, IsHandler)

\* the registered middleware that do not call on
Blocking(g) ==
    UNION {{NameOf(ms[i]) : i \in {j \in DOMAIN ms : ~ms[j].next}} :
            ms \in {g.PreMiddleware, g.AfterMiddleware, g.Middleware,
                    g.ContextMiddleware, g.route}}

\* no middleware that was invoked kept the request from going on
NoneBlocked == \A i \in DOMAIN res.out.trace : res.out.trace[i] \notin Blocking(res.args.g)

RECURSIVE UpToBlock(_)
UpToBlock(layers) ==
    IF layers = <<>> THEN <<>>
    ELSE IF ~Head(layers).next THEN <<NameOf(Head(layers))>>
    ELSE <<NameOf(Head(layers))>> \o UpToBlock(Tail(layers))

\* the order of C40 for the handler of a path
RouteOrder(g, path) ==
    g.PreMiddleware \o Reverse(g.AfterMiddleware) \o g.Middleware \o g.route
        \o <<HandlerOf("Handlers", path)>>

\* C40: a request whose path is that of a handler route invokes the
\* pre-middleware in the order of their registration, then the after-middleware
\* in the reverse of that order, then the middleware of the group in the order
\* of their registration, then those of the route in the order of their
\* registration, then the handler, and nothing behind a middleware that does
\* not call on.
C40_MiddlewareOrder ==
    (/\ Dispatched
     /\ ~(res.op = "Group.Handle" /\ res.args.stub = <<>>)
     /\ EffectiveArgs # <<>>
     /\ FirstMatch(res.args.g, EffectiveArgs[1]) = <<"Handlers", EffectiveArgs[1]>>)
        => res.out.trace = UpToBlock(RouteOrder(res.args.g, EffectiveArgs[1]))

\* the handler of z was invoked behind two middleware of each kind
C40_Witness ==
    /\ res.op = "Group.Handle" /\ res.args.stub = <<"z", "q">>
    /\ res.out.trace
        = << <<"PreMiddleware", "1">>, <<"PreMiddleware", "2">>,
             <<"AfterMiddleware", "2">>, <<"AfterMiddleware", "1">>,
             <<"Middleware", "1">>, <<"Middleware", "2">>,
             <<"route", "1">>, <<"route", "2">>, <<"Handlers", "z">> >>
    /\ res.out.resp = Response(shim.OK, OK, <<"Handlers", "z">>)

====
